---- MODULE Spec2Model ----
(***************************************************************************)
(* OfficeIndex adapter (agent_runtime/search_adapters/officeindex_api.py): *)
(* the in-memory index, its two locks, the refresh orchestrator, the       *)
(* /search, /reindex and /health handlers and the background worker, as a  *)
(* state machine over handler threads, a clock and a workspace directory.  *)
(*                                                                         *)
(* Strings are sequences of character codes; wall-clock time is an         *)
(* integer number of seconds.                                              *)
(***************************************************************************)
EXTENDS Integers, Sequences, FiniteSets, TLC

\* ------------------------------------------------------------ bounds
\* The wall clock runs from 1 to MaxClock.
MaxClock == 3
\* Requests and background ticks in one behaviour.
MaxRequests == 2
\* Writes of one file in a run.
MaxWrites == 2
\* Startup and shutdown events in one behaviour.
MaxCalls == 3
\* Characters before the hit in a text a snippet is cut from.
MaxPad == 95

\* ------------------------------------------------------------ program constants
MAX_SCAN_DIRECTORIES == 400
MAX_INDEXED_FILES == 2000
MAX_DIAGNOSTIC_MESSAGES == 50
DEFAULT_LIMIT == 40
MAX_LIMIT == 100
MIN_QUERY_LENGTH == 2
MAX_QUERY_LENGTH == 180

\* OFFICEINDEX_REFRESH_INTERVAL_SECONDS as configured for the process.
_refresh_interval_seconds == 2
\* OFFICEINDEX_BACKGROUND_SYNC_SECONDS as configured for the process.
_background_sync_seconds == 1

\* ------------------------------------------------------------ strings
\* str.lower() on one character code (ASCII letters).
LowerChar(c) == IF c >= 65 /\ c <= 90 THEN c + 32 ELSE c

\* str.lower()
\* U+0130, the capital I with a dot above, is lowercased to the two
\* characters U+0069 U+0307; every other character to one.
RECURSIVE Lower(_)
Lower(s) ==
    IF \A i \in DOMAIN s : s[i] # 304 THEN [i \in 1..Len(s) |-> LowerChar(s[i])]
    ELSE IF Len(s) = 1
    THEN (IF s[1] = 304 THEN <<105, 775>> ELSE <<LowerChar(s[1])>>)
    ELSE LET half == Len(s) \div 2
         IN  Lower(SubSeq(s, 1, half)) \o Lower(SubSeq(s, half + 1, Len(s)))

\* k times the character ch.
Repeat(ch, k) == [i \in 1..k |-> ch]

\* Whitespace as str.strip() and str.split() see it.
IsSpace(c) == c \in {9, 10, 11, 12, 13, 32}

RECURSIVE LStrip(_)
LStrip(s) ==
    IF s # <<>> /\ IsSpace(Head(s)) THEN LStrip(Tail(s)) ELSE s

RECURSIVE RStrip(_)
RStrip(s) ==
    IF s # <<>> /\ IsSpace(s[Len(s)]) THEN RStrip(SubSeq(s, 1, Len(s) - 1)) ELSE s

\* str.strip()
Strip(s) == RStrip(LStrip(s))

\* Variant: the slice ends one element early.
Prefix_OneLess(s, n) == SubSeq(s, 1, IF n - 1 < Len(s) THEN n - 1 ELSE Len(s))

\* s[:n]
Prefix(s, n) == SubSeq(s, 1, IF n < Len(s) THEN n ELSE Len(s))

\* str.startswith
StartsWith(s, p) == Len(p) <= Len(s) /\ SubSeq(s, 1, Len(p)) = p

\* str.find: the 0-based index of the first occurrence, or -1.
Find(s, n) ==
    LET hits == {i \in 0..(Len(s) - Len(n)) : SubSeq(s, i + 1, i + Len(n)) = n}
    IN  IF hits = {} THEN -1 ELSE CHOOSE i \in hits : \A j \in hits : i <= j

\* Lexicographic order of two strings, as Python compares str.
RECURSIVE StrLess(_, _)
StrLess(a, b) ==
    IF b = <<>> THEN FALSE
    ELSE IF a = <<>> THEN TRUE
    ELSE IF Head(a) # Head(b) THEN Head(a) < Head(b)
    ELSE StrLess(Tail(a), Tail(b))

\* str.split("/")
RECURSIVE SplitPath(_, _)
SplitPath(s, part) ==
    IF s = <<>> THEN <<part>>
    ELSE IF Head(s) = 47 THEN <<part>> \o SplitPath(Tail(s), <<>>)
    ELSE SplitPath(Tail(s), Append(part, Head(s)))

\* Path.name: the last component of a path.
BaseName(p) == LET parts == SplitPath(p, <<>>) IN parts[Len(parts)]

Max2(a, b) == IF a >= b THEN a ELSE b
Min2(a, b) == IF a <= b THEN a ELSE b

\* ------------------------------------------------------------ common.py
\* parse_query: the trimmed query cut to MAX_QUERY_LENGTH; raised is TRUE when
\* the function raises ValueError.
\* Variant: the query is not trimmed.
parse_query_NoStrip(raw_query) ==
    IF raw_query = <<>> THEN [raised |-> TRUE, query |-> <<>>]
    ELSE IF Len(raw_query) < MIN_QUERY_LENGTH THEN [raised |-> TRUE, query |-> <<>>]
    ELSE [raised |-> FALSE, query |-> Prefix(raw_query, MAX_QUERY_LENGTH)]

parse_query(raw_query) ==
    LET query == Strip(raw_query)
    IN  IF query = <<>> THEN [raised |-> TRUE, query |-> <<>>]
        ELSE IF Len(query) < MIN_QUERY_LENGTH THEN [raised |-> TRUE, query |-> <<>>]
        ELSE [raised |-> FALSE, query |-> Prefix(query, MAX_QUERY_LENGTH)]

\* Variant: the limit has no floor.
parse_limit_NoFloor(raw_limit) ==
    IF raw_limit = <<>> THEN DEFAULT_LIMIT
    ELSE Min2(raw_limit[1], MAX_LIMIT)

\* parse_limit: raw_limit is <<>> for None and <<n>> for the integer n.
parse_limit(raw_limit) ==
    IF raw_limit = <<>> THEN DEFAULT_LIMIT
    ELSE Max2(1, Min2(raw_limit[1], MAX_LIMIT))

\* Variant: an equal haystack scores 2200.
score_text_match_Big(haystack, needle_lower) ==
    IF haystack = <<>> THEN 0
    ELSE LET value == Lower(haystack)
             index == Find(value, needle_lower)
         IN  IF value = needle_lower THEN 2200
             ELSE IF StartsWith(value, needle_lower) THEN 170
             ELSE IF index = -1 THEN 0
             ELSE 120 + Max2(0, 40 - (index \div 4))

score_text_match(haystack, needle_lower) ==
    IF haystack = <<>> THEN 0
    ELSE LET value == Lower(haystack)
             index == Find(value, needle_lower)
         IN  IF value = needle_lower THEN 220
             ELSE IF StartsWith(value, needle_lower) THEN 170
             ELSE IF index = -1 THEN 0
             ELSE 120 + Max2(0, 40 - (index \div 4))

\* re.sub(r"\s+", " ", text): every run of whitespace becomes one space.
RECURSIVE CollapseSpaces(_, _)
CollapseSpaces(s, in_run) ==
    IF s = <<>> THEN <<>>
    ELSE IF Len(s) = 1
    THEN (IF ~IsSpace(s[1]) THEN s ELSE IF in_run THEN <<>> ELSE <<32>>)
    ELSE LET half == Len(s) \div 2
         IN  CollapseSpaces(SubSeq(s, 1, half), in_run)
             \o CollapseSpaces(SubSeq(s, half + 1, Len(s)), IsSpace(s[half]))

\* The character U+2026 that marks a cut.
Ellipsis == <<8230>>

\* An Optional[str]: None, or the string s.
None == <<>>
Some(s) == <<s>>

\* Variant: the window is not widened by the length of the needle.
extract_search_snippet_ShortWindow(text, needle_lower, radius) ==
    LET normalized == Strip(CollapseSpaces(text, FALSE))
        index == Find(Lower(normalized), needle_lower)
        start == Max2(0, index - radius)
        end_ == Min2(Len(normalized), index + radius)
    IN  IF text = <<>> \/ normalized = <<>> THEN None
        ELSE IF index = -1
        THEN Some(IF Len(normalized) > 2 * radius
                  THEN Prefix(normalized, 2 * radius) \o Ellipsis
                  ELSE normalized)
        ELSE Some((IF start > 0 THEN Ellipsis ELSE <<>>)
                  \o Strip(SubSeq(normalized, start + 1, end_))
                  \o (IF end_ < Len(normalized) THEN Ellipsis ELSE <<>>))

\* extract_search_snippet(text, needle_lower, radius)
extract_search_snippet(text, needle_lower, radius) ==
    LET normalized == Strip(CollapseSpaces(text, FALSE))
        index == Find(Lower(normalized), needle_lower)
        start == Max2(0, index - radius)
        end_ == Min2(Len(normalized), index + Len(needle_lower) + radius)
    IN  IF text = <<>> \/ normalized = <<>> THEN None
        ELSE IF index = -1
        THEN Some(IF Len(normalized) > 2 * radius
                  THEN Prefix(normalized, 2 * radius) \o Ellipsis
                  ELSE normalized)
        ELSE Some((IF start > 0 THEN Ellipsis ELSE <<>>)
                  \o Strip(SubSeq(normalized, start + 1, end_))
                  \o (IF end_ < Len(normalized) THEN Ellipsis ELSE <<>>))

\* The default of extract_search_snippet's parameter radius.
DEFAULT_RADIUS == 90

\* ------------------------------------------------------------ ranking
\* The words of s joined by one space each; pending tells that whitespace
\* came before s, after a word.
RECURSIVE SplitJoin(_, _)
SplitJoin(s, pending) ==
    IF s = <<>> THEN <<>>
    ELSE IF Len(s) = 1
    THEN (IF IsSpace(s[1]) THEN <<>>
          ELSE (IF pending THEN <<32>> ELSE <<>>) \o s)
    ELSE LET half == Len(s) \div 2
         IN  SplitJoin(SubSeq(s, 1, half), pending)
             \o SplitJoin(SubSeq(s, half + 1, Len(s)), IsSpace(s[half]))

\* " ".join(value.split())
_normalize_whitespace(value) == SplitJoin(LStrip(value), FALSE)

\* pathlib's PurePath.stem of a file name without directory part.
Stem(name) ==
    LET dots == {i \in 1..Len(name) : name[i] = 46}
        last == IF dots = {} THEN 0 ELSE CHOOSE i \in dots : \A j \in dots : j <= i
    IN  IF last > 1 /\ last < Len(name) THEN SubSeq(name, 1, last - 1) ELSE name

Max3(a, b, c) == Max2(a, Max2(b, c))

\* _compute_ranked_match: the score and kind of the first rule that matches;
\* matchKind "none" stands for the None the function returns when no rule does.
_compute_ranked_match(file_path, title, content, needle_lower) ==
    LET normalized_content == Lower(_normalize_whitespace(content))
        normalized_needle == Lower(_normalize_whitespace(needle_lower))
        stem_lower == Lower(Stem(IF title # <<>> THEN title ELSE file_path))
        path_score == Max3(score_text_match(file_path, normalized_needle),
                           score_text_match(title, normalized_needle),
                           score_text_match(stem_lower, normalized_needle))
        filename_exact == stem_lower = normalized_needle
        content_exact_phrase ==
            /\ normalized_content # <<>>
            /\ \/ normalized_content = normalized_needle
               \/ Find(<<32>> \o normalized_content \o <<32>>,
                       <<32>> \o normalized_needle \o <<32>>) # -1
        content_partial ==
            /\ normalized_content # <<>>
            /\ ~content_exact_phrase
            /\ score_text_match(normalized_content, normalized_needle) > 0
        content_base == score_text_match(normalized_content, normalized_needle)
        snippet == extract_search_snippet(content, normalized_needle, DEFAULT_RADIUS)
    IN  IF filename_exact
        THEN [score |-> 3000 + Max2(path_score, 1), matchKind |-> "filename-exact",
              snippet |-> IF content_exact_phrase \/ content_partial
                          THEN snippet ELSE None]
        ELSE IF content_exact_phrase
        THEN [score |-> 2000 + Max2(content_base, 1), matchKind |-> "content-exact-phrase",
              snippet |-> snippet]
        ELSE IF content_partial
        THEN [score |-> 1000 + Max2(content_base, 1), matchKind |-> "content-partial",
              snippet |-> snippet]
        ELSE IF path_score > 0
        THEN [score |-> 800 + path_score, matchKind |-> "filename-partial",
              snippet |-> None]
        ELSE [score |-> 0, matchKind |-> "none", snippet |-> None]

\* Variant: the sort is ascending.
RanksBefore_Ascending(a, b) ==
    \/ a.score < b.score
    \/ a.score = b.score /\ StrLess(a.filePath, b.filePath)

\* The order _sort_results sorts by, descending: (score, filePath).
RanksBefore(a, b) ==
    \/ a.score > b.score
    \/ a.score = b.score /\ StrLess(b.filePath, a.filePath)

\* sorted(results, key=(score, filePath), reverse=True); filePath is unique
\* among the results of one search.
RECURSIVE _sort_results(_)
_sort_results(results) ==
    IF results = {} THEN <<>>
    ELSE LET first == CHOOSE a \in results : \A b \in results \ {a} : RanksBefore(a, b)
         IN  <<first>> \o _sort_results(results \ {first})

\* ------------------------------------------------------------ workspace
\* The office files the workspace may hold, by workspace-relative path:
\* "ab.docx" and "c.docx", both directly under the root.
PathA == <<97, 98, 46, 100, 111, 99, 120>>
PathB == <<99, 46, 100, 111, 99, 120>>
Paths == {PathA, PathB}

\* The contents a file may have.
DataValues == {1, 2}

\* st_size of a file whose bytes are d: contents 1 and 2 have the same size.
SizeOf(d) == (d + 1) \div 2

\* The text the extractor chain finds in a file whose bytes are d:
\* "ab", "x ab c", and no text at all for any other content.
TextOf(d) ==
    IF d = 1 THEN <<97, 98>>
    ELSE IF d = 2 THEN <<120, 32, 97, 98, 32, 99>>
    ELSE <<>>

NoFile == [exists |-> FALSE, mtime |-> 0, size |-> 0, data |-> 0]
File(m, d) == [exists |-> TRUE, mtime |-> m, size |-> SizeOf(d), data |-> d]

\* I/O faults the environment may inject into one refresh: an OSError in stat,
\* hash or extraction of a file, or an exception that is no OSError.
FaultKinds == {"none", "stat", "hash", "extract", "crash"}
\* At most one file faults in one refresh.
FaultChoices ==
    {f \in [Paths -> FaultKinds] : Cardinality({p \in Paths : f[p] # "none"}) <= 1}

\* ------------------------------------------------------------ threads
Handlers == {"h1", "h2"}
\* The Thread objects _start_background_sync may create: the first one, and
\* one more should the first be gone.
Worker == "bg"
Workers == {Worker, "bg2"}
Threads == Handlers \cup Workers
NoThread == "nobody"

\* Raw request bodies: queries "a" (too short) and " ab", no limit,
\* reindex modes unset, "incremental" and an unknown word.
RawQueries == {<<97>>, <<32, 32>>, <<32, 97, 98>>}
RawLimits == {<<>>}
RawModes == {"", "incremental", "sideways"}

EmptyMap == [p \in {} |-> p]
EmptyDict == EmptyMap

NoReq == [kind |-> "none", mode |-> "none", bypass_interval |-> FALSE,
          query |-> <<>>, limit |-> 0]
\* No I/O fault on any file.
NoFaults == [p \in Paths |-> "none"]

NoFrame == [now |-> 0, current_size |-> 0, previous |-> EmptyMap,
            should_skip |-> FALSE, scanned |-> <<>>, diagnostics |-> <<>>,
            updated |-> EmptyMap, summary |-> EmptyDict]
NoOutcome == [raised |-> "none", summary |-> EmptyDict]
NoResp == [status |-> 0]

\* What is recorded about the running request of a thread, for the properties:
\*   root_gone  the workspace root was missing when the request came in and
\*              stayed so until the response
\*   overlap    a /reindex of the other handler was under way when the request
\*              came in
\*   first      an earlier /search had been answered when the request came in,
\*              and the snapshot that search served from
\*   pre        the map the latest completed swap had installed when the
\*              refresh of the request started
\*   within     the refresh read the clock less than the refresh interval after
\*              the lastIndexedAt written by an earlier /search's refresh
\*   swapped    another caller's refresh completed a swap between the return of
\*              this request's refresh and its search snapshot
\*   expect     the map the latest completed swap had installed when the search
\*              snapshot was taken
\*   fresh, smap  at the search snapshot the latest swap was that of a /search's
\*              refresh, and the map it installed
NoSearch == [some |-> FALSE, skipped |-> FALSE, docs |-> EmptyMap]
NoGhost == [root_gone |-> FALSE, overlap |-> FALSE, first |-> NoSearch,
            pre |-> EmptyMap,
            within |-> FALSE, swapped |-> FALSE, expect |-> EmptyMap,
            fresh |-> FALSE, smap |-> EmptyMap]
NoSwap == [at |-> 0, map |-> EmptyMap, latest |-> FALSE]

\* What the environment did to the refreshes of a sequential run:
\*   seen       the workspace as the latest scan found it
\*   faults     the I/O faults of the latest per-file loop
\*   swap_seen  the workspace as the scan of the latest refresh that
\*              completed its swap found it
\*   raw_query  the query of the latest /search as it came in
\*   raw_limit  the limit of the latest /search as it came in
\*   calls, call  the number of startup and shutdown events so far, and the
\*              latest of them
\*   stop_at    where the worker was when the latest shutdown event came
NoSeen == [root |-> FALSE, files |-> [p \in Paths |-> NoFile]]
NoWatch == [seen |-> NoSeen, faults |-> NoFaults, swap_seen |-> NoSeen,
            raw_query |-> <<>>, raw_limit |-> <<>>, calls |-> 0, call |-> "none",
            stop_at |-> "none"]

\* No function is applied on its own.
NoProbe == [fn |-> "none"]

VARIABLES
    \* module globals of officeindex_api.py
    index_by_path, last_indexed_at, last_refresh_mode, last_refresh_summary,
    last_refresh_error, index_lock, refresh_lock, background_stop,
    background_thread,
    \* threads: position, request, _refresh_index locals, what _refresh_index
    \* returned or raised, the snapshot _search_index took, the response
    pc, req, frame, outcome, docs, resp, bg_deadline,
    \* environment: wall clock, workspace root, files, number of requests
    clock, root_exists, files, nreq,
    \* history: the map installed by the latest completed swap and the thread
    \* that made it, the latest swap
    \* made by a /search's refresh, the /search answered last, and per thread
    \* what the running request has seen
    installed, installer, search_swap, prev_search, g,
    \* observation of a sequential run (constant in Spec), and the argument
    \* and result of one function of the program applied on its own
    watch, probe

globals == <<index_by_path, last_indexed_at, last_refresh_mode,
             last_refresh_summary, last_refresh_error>>
locks == <<index_lock, refresh_lock>>
lifecycle == <<background_stop, background_thread>>
locals == <<pc, req, frame, outcome, docs, resp, bg_deadline>>
env == <<clock, root_exists, files, nreq>>
swaps == <<installed, installer, search_swap>>
history == <<swaps, prev_search, g>>
observers == <<watch, probe>>
vars == <<globals, locks, lifecycle, locals, env, history, observers>>

\* ------------------------------------------------------------ refresh helpers
\* Variant: the list grows without a cap.
_append_diagnostic_NoCap(diagnostics, message) ==
    Append(diagnostics, message)

_append_diagnostic(diagnostics, message) ==
    IF Len(diagnostics) < MAX_DIAGNOSTIC_MESSAGES
    THEN Append(diagnostics, message)
    ELSE diagnostics

\* sorted(entries, key=name.lower()) over the entries of one directory.
RECURSIVE SortedByName(_)
SortedByName(entries) ==
    IF entries = {} THEN <<>>
    ELSE LET first == CHOOSE a \in entries :
                          \A b \in entries \ {a} : StrLess(Lower(a), Lower(b))
         IN  <<first>> \o SortedByName(entries \ {first})

\* _scan_workspace_files over a root that holds files only: the candidates in
\* name order, or a directory-unreadable diagnostic when the root cannot be
\* listed any more.
_scan_workspace_files(root_ok, fs) ==
    IF ~root_ok
    THEN [candidates |-> <<>>,
          diagnostics |-> _append_diagnostic(<<>>, <<"directory-unreadable", <<46>>>>)]
    ELSE [candidates |-> SortedByName({p \in Paths : fs[p].exists}),
          diagnostics |-> <<>>]

\* Variant: the digest is salted with the time of the call.
_compute_file_hash_Salted(file) == <<"sha256", file.data + 10 * clock>>

\* SHA-256 of the file's bytes: equal digests exactly for equal bytes.
_compute_file_hash(file) == <<"sha256", file.data>>

\* _extract_text_for_file with no external extractor configured: the local
\* OOXML text, or empty text with the external extractor's meta.
_extract_text_for_file(file) ==
    IF TextOf(file.data) # <<>>
    THEN [content |-> TextOf(file.data), sourceMeta |-> [extractor |-> "local-ooxml"]]
    ELSE [content |-> <<>>, sourceMeta |-> [extractor |-> "opensearch-disabled"]]

\* m[k] = v on a dict: the map m with key k bound to v.
MapPut(m, k, v) == (k :> v) @@ m

NoAcc == [updated |-> EmptyMap, reused_files |-> 0, updated_files |-> 0,
          failed_files |-> 0, diagnostics |-> <<>>, crashed |-> FALSE]

\* Variant: a failed file is reported but not counted.
Failed_Uncounted(acc, kind, p) ==
    [acc EXCEPT !.diagnostics = _append_diagnostic(@, <<kind, p>>)]

Failed(acc, kind, p) ==
    [acc EXCEPT !.failed_files = @ + 1,
                !.diagnostics = _append_diagnostic(@, <<kind, p>>)]

\* Variant: the loop takes nothing over from the previous index.
ProcessFile_NoReuse(acc, p, previous, mode, root_ok, fs, fault) ==
    LET file == fs[p]
        extracted == _extract_text_for_file(file)
    IN  IF ~root_ok \/ ~file.exists \/ fault = "stat"
        THEN Failed(acc, "file-stat-failed", p)
        ELSE IF fault = "hash"
        THEN Failed(acc, "file-hash-failed", p)
        ELSE IF fault = "extract"
        THEN Failed(acc, "file-extract-failed", p)
        ELSE IF fault = "crash"
        THEN [acc EXCEPT !.crashed = TRUE]
        ELSE [acc EXCEPT !.updated = MapPut(@, p,
                             [filePath |-> p, title |-> BaseName(p), subtitle |-> p,
                              content |-> extracted.content,
                              sourceMeta |-> extracted.sourceMeta,
                              mtimeNs |-> file.mtime, sizeBytes |-> file.size,
                              contentHash |-> _compute_file_hash(file)]),
                         !.updated_files = @ + 1]

\* Variant: the previous record is taken over in full mode too.
ProcessFile_ReuseAnyMode(acc, p, previous, mode, root_ok, fs, fault) ==
    LET file == fs[p]
        has_existing == p \in DOMAIN previous
        existing == previous[p]
        content_hash == _compute_file_hash(file)
        extracted == _extract_text_for_file(file)
    IN  IF ~root_ok \/ ~file.exists \/ fault = "stat"
        THEN Failed(acc, "file-stat-failed", p)
        ELSE IF /\ has_existing
                /\ existing.mtimeNs = file.mtime
                /\ existing.sizeBytes = file.size
        THEN [acc EXCEPT !.updated = MapPut(@, p, existing),
                         !.reused_files = @ + 1]
        ELSE IF fault = "hash"
        THEN Failed(acc, "file-hash-failed", p)
        ELSE IF /\ has_existing
                /\ existing.contentHash = content_hash
        THEN [acc EXCEPT !.updated = MapPut(@, p, [existing EXCEPT
                                                      !.mtimeNs = file.mtime,
                                                      !.sizeBytes = file.size]),
                         !.reused_files = @ + 1]
        ELSE IF fault = "extract"
        THEN Failed(acc, "file-extract-failed", p)
        ELSE IF fault = "crash"
        THEN [acc EXCEPT !.crashed = TRUE]
        ELSE [acc EXCEPT !.updated = MapPut(@, p,
                             [filePath |-> p, title |-> BaseName(p), subtitle |-> p,
                              content |-> extracted.content,
                              sourceMeta |-> extracted.sourceMeta,
                              mtimeNs |-> file.mtime, sizeBytes |-> file.size,
                              contentHash |-> content_hash]),
                         !.updated_files = @ + 1]

\* Variant: the file is hashed before its mtime and size are compared.
ProcessFile_HashFirst(acc, p, previous, mode, root_ok, fs, fault) ==
    LET file == fs[p]
        has_existing == p \in DOMAIN previous
        existing == previous[p]
        content_hash == _compute_file_hash(file)
        extracted == _extract_text_for_file(file)
    IN  IF ~root_ok \/ ~file.exists \/ fault = "stat"
        THEN Failed(acc, "file-stat-failed", p)
        ELSE IF fault = "hash"
        THEN Failed(acc, "file-hash-failed", p)
        ELSE IF /\ mode = "incremental"
                /\ has_existing
                /\ existing.mtimeNs = file.mtime
                /\ existing.sizeBytes = file.size
        THEN [acc EXCEPT !.updated = MapPut(@, p, existing),
                         !.reused_files = @ + 1]
        ELSE IF /\ mode = "incremental"
                /\ has_existing
                /\ existing.contentHash = content_hash
        THEN [acc EXCEPT !.updated = MapPut(@, p, [existing EXCEPT
                                                      !.mtimeNs = file.mtime,
                                                      !.sizeBytes = file.size]),
                         !.reused_files = @ + 1]
        ELSE IF fault = "extract"
        THEN Failed(acc, "file-extract-failed", p)
        ELSE IF fault = "crash"
        THEN [acc EXCEPT !.crashed = TRUE]
        ELSE [acc EXCEPT !.updated = MapPut(@, p,
                             [filePath |-> p, title |-> BaseName(p), subtitle |-> p,
                              content |-> extracted.content,
                              sourceMeta |-> extracted.sourceMeta,
                              mtimeNs |-> file.mtime, sizeBytes |-> file.size,
                              contentHash |-> content_hash]),
                         !.updated_files = @ + 1]

\* One iteration of the per-file loop of _refresh_index.
ProcessFile(acc, p, previous, mode, root_ok, fs, fault) ==
    LET file == fs[p]
        has_existing == p \in DOMAIN previous
        existing == previous[p]
        content_hash == _compute_file_hash(file)
        extracted == _extract_text_for_file(file)
    IN  IF ~root_ok \/ ~file.exists \/ fault = "stat"
        THEN Failed(acc, "file-stat-failed", p)
        ELSE IF /\ mode = "incremental"
                /\ has_existing
                /\ existing.mtimeNs = file.mtime
                /\ existing.sizeBytes = file.size
        THEN [acc EXCEPT !.updated = MapPut(@, p, existing),
                         !.reused_files = @ + 1]
        ELSE IF fault = "hash"
        THEN Failed(acc, "file-hash-failed", p)
        ELSE IF /\ mode = "incremental"
                /\ has_existing
                /\ existing.contentHash = content_hash
        THEN [acc EXCEPT !.updated = MapPut(@, p, [existing EXCEPT
                                                      !.mtimeNs = file.mtime,
                                                      !.sizeBytes = file.size]),
                         !.reused_files = @ + 1]
        ELSE IF fault = "extract"
        THEN Failed(acc, "file-extract-failed", p)
        ELSE IF fault = "crash"
        THEN [acc EXCEPT !.crashed = TRUE]
        ELSE [acc EXCEPT !.updated = MapPut(@, p,
                             [filePath |-> p, title |-> BaseName(p), subtitle |-> p,
                              content |-> extracted.content,
                              sourceMeta |-> extracted.sourceMeta,
                              mtimeNs |-> file.mtime, sizeBytes |-> file.size,
                              contentHash |-> content_hash]),
                         !.updated_files = @ + 1]

\* The per-file loop of _refresh_index over the scanned paths, first to last;
\* it stops at the first exception that is no OSError.
RECURSIVE BuildIndex(_, _, _, _, _, _, _)
BuildIndex(acc, scanned, previous, mode, root_ok, fs, faults) ==
    IF scanned = <<>> \/ acc.crashed THEN acc
    ELSE IF Len(scanned) = 1
    THEN ProcessFile(acc, scanned[1], previous, mode, root_ok, fs, faults[scanned[1]])
    ELSE LET half == Len(scanned) \div 2
         IN  BuildIndex(BuildIndex(acc, SubSeq(scanned, 1, half), previous, mode,
                                   root_ok, fs, faults),
                        SubSeq(scanned, half + 1, Len(scanned)), previous, mode,
                        root_ok, fs, faults)

Size(m) == Cardinality(DOMAIN m)

\* Variant: the skipped summary does not carry the index size.
SkippedSummary_NoCount(mode, current_size) ==
    [status |-> "skipped", mode |-> mode, reason |-> "refresh-interval",
     indexedFiles |-> 0, scannedFiles |-> 0, reusedFiles |-> 0,
     updatedFiles |-> 0, removedFiles |-> 0, failedFiles |-> 0,
     diagnostics |-> <<>>]

SkippedSummary(mode, current_size) ==
    [status |-> "skipped", mode |-> mode, reason |-> "refresh-interval",
     indexedFiles |-> current_size, scannedFiles |-> 0, reusedFiles |-> 0,
     updatedFiles |-> 0, removedFiles |-> 0, failedFiles |-> 0,
     diagnostics |-> <<>>]

\* Variant: indexedFiles counts the scanned files.
OkSummary_IndexedIsScanned(mode, previous, scanned, acc) ==
    [status |-> "ok", mode |-> mode,
     indexedFiles |-> Len(scanned), scannedFiles |-> Len(scanned),
     reusedFiles |-> acc.reused_files, updatedFiles |-> acc.updated_files,
     removedFiles |-> Max2(0, Size(previous) - Size(acc.updated)),
     failedFiles |-> acc.failed_files, diagnostics |-> acc.diagnostics]

\* Variant: removedFiles is the difference of the sizes, below zero too.
OkSummary_RemovedUnfloored(mode, previous, scanned, acc) ==
    [status |-> "ok", mode |-> mode,
     indexedFiles |-> Size(acc.updated), scannedFiles |-> Len(scanned),
     reusedFiles |-> acc.reused_files, updatedFiles |-> acc.updated_files,
     removedFiles |-> Size(previous) - Size(acc.updated),
     failedFiles |-> acc.failed_files, diagnostics |-> acc.diagnostics]

OkSummary(mode, previous, scanned, acc) ==
    [status |-> "ok", mode |-> mode,
     indexedFiles |-> Size(acc.updated), scannedFiles |-> Len(scanned),
     reusedFiles |-> acc.reused_files, updatedFiles |-> acc.updated_files,
     removedFiles |-> Max2(0, Size(previous) - Size(acc.updated)),
     failedFiles |-> acc.failed_files, diagnostics |-> acc.diagnostics]

RootNotFoundMessage == "Workspace root directory not found"

\* Variant: no refresh is ever debounced.
ShouldSkip_Never(mode, bypass_interval, now, indexed_at) == FALSE

\* Variant: the debounce does not look at bypass_interval.
ShouldSkip_IgnoresBypass(mode, bypass_interval, now, indexed_at) ==
    /\ mode = "incremental"
    /\ indexed_at > 0
    /\ (now - indexed_at) < _refresh_interval_seconds

\* The debounce decision of _refresh_index.
ShouldSkip(mode, bypass_interval, now, indexed_at) ==
    /\ mode = "incremental"
    /\ ~bypass_interval
    /\ indexed_at > 0
    /\ (now - indexed_at) < _refresh_interval_seconds

\* ------------------------------------------------------------ handlers' helpers
_parse_reindex_mode(raw_mode) ==
    IF raw_mode = "" THEN [raised |-> FALSE, mode |-> "full"]
    ELSE IF raw_mode \in {"full", "incremental"} THEN [raised |-> FALSE, mode |-> raw_mode]
    ELSE [raised |-> TRUE, mode |-> "none"]

\* _search_index on the snapshot it took: the matching documents, ranked, cut
\* to the limit.
_search_index(snapshot, query, limit) ==
    LET needle_lower == Lower(query)
        ranked(doc) == _compute_ranked_match(doc.filePath, doc.title, doc.content,
                                             needle_lower)
        hit(doc, r) == [id |-> doc.filePath,
                        filePath |-> doc.filePath,
                        title |-> doc.title,
                        subtitle |-> doc.subtitle,
                        snippet |-> r.snippet,
                        score |-> r.score,
                        sourceMeta |-> [extractor |-> doc.sourceMeta.extractor,
                                        matchKind |-> r.matchKind]]
        all == {hit(snapshot[p], ranked(snapshot[p])) : p \in DOMAIN snapshot}
        results == {r \in all : r.sourceMeta.matchKind # "none"}
    IN  Prefix(_sort_results(results), limit)

\* for item in warnings: _append_diagnostic(diagnostics, item), the first
\* half of the items and then the second.
RECURSIVE AppendAll(_, _)
AppendAll(diagnostics, warnings) ==
    IF diagnostics \o warnings = diagnostics THEN diagnostics
    ELSE IF Len(warnings) = 1
    THEN _append_diagnostic(diagnostics, warnings[1])
    ELSE LET half == Len(warnings) \div 2
         IN  AppendAll(AppendAll(diagnostics, SubSeq(warnings, 1, half)),
                       SubSeq(warnings, half + 1, Len(warnings)))

\* Variant: a refresh that raised does not mark the response degraded.
SearchDegraded_OnlyFailedFiles(o) ==
    IF o.raised # "none" THEN FALSE ELSE o.summary.failedFiles > 0

\* search: the degraded flag after the try/except around _refresh_index.
SearchDegraded(o) ==
    IF o.raised # "none" THEN TRUE ELSE o.summary.failedFiles > 0

\* Variant: a missing root leaves no diagnostic.
SearchDiagnostics_Silent(o) ==
    IF o.raised = "FileNotFoundError"
    THEN <<>>
    ELSE IF o.raised = "Exception"
    THEN _append_diagnostic(<<>>, <<"refresh-failed", "unexpected-error">>)
    ELSE IF o.summary.failedFiles > 0
    THEN AppendAll(<<>>, o.summary.diagnostics)
    ELSE <<>>

\* search: the diagnostics after the try/except around _refresh_index.
SearchDiagnostics(o) ==
    IF o.raised = "FileNotFoundError"
    THEN _append_diagnostic(<<>>, <<"refresh-failed", RootNotFoundMessage>>)
    ELSE IF o.raised = "Exception"
    THEN _append_diagnostic(<<>>, <<"refresh-failed", "unexpected-error">>)
    ELSE IF o.summary.failedFiles > 0
    THEN AppendAll(<<>>, o.summary.diagnostics)
    ELSE <<>>

\* reindex: the response after the try/except around _refresh_index.
ReindexResponse(mode, o) ==
    IF o.raised = "FileNotFoundError"
    THEN [status |-> 503, errorCode |-> "WORKSPACE_ROOT_NOT_FOUND"]
    ELSE IF o.raised = "Exception"
    THEN [status |-> 500, errorCode |-> "REINDEX_FAILED"]
    ELSE [status |-> 200,
          body |-> [status |-> IF o.summary.failedFiles > 0 THEN "degraded" ELSE "ok",
                    mode |-> mode,
                    indexedFiles |-> o.summary.indexedFiles,
                    scannedFiles |-> o.summary.scannedFiles,
                    reusedFiles |-> o.summary.reusedFiles,
                    updatedFiles |-> o.summary.updatedFiles,
                    removedFiles |-> o.summary.removedFiles,
                    failedFiles |-> o.summary.failedFiles,
                    diagnostics |-> o.summary.diagnostics]]

\* Thread.is_alive(): started and not yet finished.
IsAlive(w) == pc[w] \notin {"off", "exited"}

\* _background_thread and _background_thread.is_alive()
WorkerAlive == background_thread # "None" /\ IsAlive(background_thread)

\* A handler thread that is not inside a request; the locals of the request it
\* answered last stay visible until it takes the next one.
Free(t) == pc[t] \in {"idle", "done"}

\* The server hands a request to the first free thread of its pool.
Accepts(t) == Free(t) /\ (t = "h2" => ~Free("h1"))

\* ------------------------------------------------------------ initial state
\* The module globals as the import of officeindex_api.py leaves them, every
\* thread outside any request, and a workspace that holds both files.
\* The state of the program after import, of its environment and of the
\* history.
InitProgram ==
    /\ index_by_path = EmptyMap
    /\ last_indexed_at = 0
    /\ last_refresh_mode = "none"
    /\ last_refresh_summary = EmptyDict
    /\ last_refresh_error = "None"
    /\ index_lock = NoThread
    /\ refresh_lock = NoThread
    /\ background_stop = FALSE
    /\ background_thread = "None"
    /\ pc = [t \in Threads |-> IF t \in Workers THEN "off" ELSE "idle"]
    /\ req = [t \in Threads |-> NoReq]
    /\ frame = [t \in Threads |-> NoFrame]
    /\ outcome = [t \in Threads |-> NoOutcome]
    /\ docs = [t \in Threads |-> EmptyMap]
    /\ resp = [t \in Threads |-> NoResp]
    /\ bg_deadline = [w \in Workers |-> 0]
    /\ clock = 1
    /\ root_exists = TRUE
    /\ files = [p \in Paths |-> File(0, IF p = PathA THEN 1 ELSE 2)]
    /\ nreq = 0
    /\ installed = EmptyMap
    /\ installer = NoThread
    /\ watch = NoWatch
    /\ search_swap = NoSwap
    /\ prev_search = NoSearch
    /\ g = [t \in Threads |-> NoGhost]

Init == InitProgram /\ probe = NoProbe

\* ------------------------------------------------------------ environment
\* time.time() moves on.
Tick ==
    /\ clock < MaxClock
    /\ clock' = clock + 1
    /\ UNCHANGED <<globals, locks, lifecycle, locals, root_exists, files, nreq,
                   history>>

\* A file of the workspace is written with other bytes; its mtime moves on.
WriteFile(p, d) ==
    /\ root_exists
    /\ files[p].data # d
    /\ files' = [files EXCEPT ![p] = File(files[p].mtime + 1, d)]
    /\ UNCHANGED <<globals, locks, lifecycle, locals, clock, root_exists, nreq,
                   history>>

\* A file of the workspace is deleted.
DeleteFile(p) ==
    /\ root_exists
    /\ files[p].exists
    /\ files' = [files EXCEPT ![p] = NoFile]
    /\ UNCHANGED <<globals, locks, lifecycle, locals, clock, root_exists, nreq,
                   history>>

\* The workspace root directory goes away (unmounted, renamed) ...
RemoveRoot ==
    /\ root_exists
    /\ root_exists' = FALSE
    /\ UNCHANGED <<globals, locks, lifecycle, locals, clock, files, nreq,
                   history>>

\* ... and comes back with the files it had.
RestoreRoot ==
    /\ ~root_exists
    /\ root_exists' = TRUE
    /\ g' = [t \in Threads |-> [g[t] EXCEPT !.root_gone = @ /\ Free(t)]]
    /\ UNCHANGED <<globals, locks, lifecycle, locals, clock, files, nreq,
                   swaps, prev_search>>

\* ------------------------------------------------------------ request handlers
\* What is recorded when a request arrives at handler t.
Arrival(t) ==
    [NoGhost EXCEPT !.root_gone = ~root_exists,
                    !.overlap = \E u \in Handlers \ {t} :
                                    ~Free(u) /\ req[u].kind = "reindex",
                    !.first = prev_search]

\* search, up to the call of _refresh_index: parse_query and parse_limit.
StartSearch(t, raw_query, raw_limit) ==
    LET parsed == parse_query(raw_query)
    IN  /\ Accepts(t)
        /\ nreq < MaxRequests
        /\ nreq' = nreq + 1
        /\ req' = [req EXCEPT ![t] =
                      [kind |-> "search", mode |-> "incremental",
                       bypass_interval |-> FALSE,
                       query |-> parsed.query,
                       limit |-> IF parsed.raised THEN 0 ELSE parse_limit(raw_limit)]]
        /\ pc' = [pc EXCEPT ![t] = IF parsed.raised THEN "done" ELSE "refresh_lock"]
        /\ resp' = [resp EXCEPT ![t] =
                       IF parsed.raised
                       THEN [status |-> 400, errorCode |-> "INVALID_QUERY"]
                       ELSE NoResp]
        /\ outcome' = [outcome EXCEPT ![t] = NoOutcome]
        /\ docs' = [docs EXCEPT ![t] = EmptyMap]
        /\ g' = [g EXCEPT ![t] = Arrival(t)]
        /\ UNCHANGED <<globals, locks, lifecycle, frame, bg_deadline, clock,
                       root_exists, files, swaps, prev_search>>

\* reindex, up to the call of _refresh_index: _parse_reindex_mode.
StartReindex(t, raw_mode) ==
    LET parsed == _parse_reindex_mode(raw_mode)
    IN  /\ Accepts(t)
        /\ nreq < MaxRequests
        /\ nreq' = nreq + 1
        /\ req' = [req EXCEPT ![t] =
                      [kind |-> "reindex", mode |-> parsed.mode,
                       bypass_interval |-> TRUE, query |-> <<>>, limit |-> 0]]
        /\ pc' = [pc EXCEPT ![t] = IF parsed.raised THEN "done" ELSE "refresh_lock"]
        /\ resp' = [resp EXCEPT ![t] =
                       IF parsed.raised
                       THEN [status |-> 400, errorCode |-> "INVALID_MODE"]
                       ELSE NoResp]
        /\ outcome' = [outcome EXCEPT ![t] = NoOutcome]
        /\ docs' = [docs EXCEPT ![t] = EmptyMap]
        /\ g' = [g EXCEPT ![t] = Arrival(t)]
        /\ UNCHANGED <<globals, locks, lifecycle, frame, bg_deadline, clock,
                       root_exists, files, swaps, prev_search>>

\* health: reads the globals under the index lock.
Health(t) ==
    /\ Accepts(t)
    /\ nreq < MaxRequests
    /\ index_lock = NoThread
    /\ nreq' = nreq + 1
    /\ req' = [req EXCEPT ![t] = [NoReq EXCEPT !.kind = "health"]]
    /\ pc' = [pc EXCEPT ![t] = "done"]
    /\ resp' = [resp EXCEPT ![t] =
                   [status |-> 200,
                    body |-> [status |-> "ok",
                              service |-> "officeindex-adapter",
                              indexedFiles |-> Size(index_by_path),
                              lastIndexedAt |-> IF last_indexed_at > 0
                                                THEN <<last_indexed_at * 1000>>
                                                ELSE <<>>,
                              refreshIntervalSeconds |-> _refresh_interval_seconds,
                              backgroundSyncSeconds |-> _background_sync_seconds,
                              backgroundSyncActive |-> WorkerAlive,
                              lastRefreshMode |-> last_refresh_mode,
                              lastRefreshSummary |-> last_refresh_summary,
                              lastRefreshError |-> last_refresh_error]]]
    /\ outcome' = [outcome EXCEPT ![t] = NoOutcome]
    /\ docs' = [docs EXCEPT ![t] = EmptyMap]
    /\ g' = [g EXCEPT ![t] = NoGhost]
    /\ UNCHANGED <<globals, locks, lifecycle, frame, bg_deadline, clock,
                   root_exists, files, swaps, prev_search>>

\* ------------------------------------------------------------ _refresh_index
\* Variant: an exception of the refresh ends the background loop.
Return_RaiseEndsLoop(t, o) ==
    /\ refresh_lock' = NoThread
    /\ frame' = [frame EXCEPT ![t] = NoFrame]
    /\ IF req[t].kind = "search"
       THEN /\ pc' = [pc EXCEPT ![t] = "search_index"]
            /\ outcome' = [outcome EXCEPT ![t] = o]
            /\ UNCHANGED <<req, resp, bg_deadline>>
       ELSE IF req[t].kind = "reindex"
       THEN /\ pc' = [pc EXCEPT ![t] = "done"]
            /\ outcome' = [outcome EXCEPT ![t] = o]
            /\ resp' = [resp EXCEPT ![t] = ReindexResponse(req[t].mode, o)]
            /\ UNCHANGED <<req, bg_deadline>>
       ELSE /\ pc' = [pc EXCEPT ![t] = IF o.raised # "none" THEN "exited"
                                        ELSE "wait"]
            /\ req' = [req EXCEPT ![t] = NoReq]
            /\ bg_deadline' = [bg_deadline EXCEPT
                                   ![t] = clock + _background_sync_seconds]
            /\ UNCHANGED <<outcome, resp>>

\* Variant: an exception leaves _refresh_index with the refresh lock held.
Return_KeepsRefreshLock(t, o) ==
    /\ refresh_lock' = IF o.raised # "none" THEN refresh_lock ELSE NoThread
    /\ frame' = [frame EXCEPT ![t] = NoFrame]
    /\ IF req[t].kind = "search"
       THEN /\ pc' = [pc EXCEPT ![t] = "search_index"]
            /\ outcome' = [outcome EXCEPT ![t] = o]
            /\ UNCHANGED <<req, resp, bg_deadline>>
       ELSE IF req[t].kind = "reindex"
       THEN /\ pc' = [pc EXCEPT ![t] = "done"]
            /\ outcome' = [outcome EXCEPT ![t] = o]
            /\ resp' = [resp EXCEPT ![t] = ReindexResponse(req[t].mode, o)]
            /\ UNCHANGED <<req, bg_deadline>>
       ELSE /\ pc' = [pc EXCEPT ![t] = "wait"]
            /\ req' = [req EXCEPT ![t] = NoReq]
            /\ bg_deadline' = [bg_deadline EXCEPT
                                   ![t] = clock + _background_sync_seconds]
            /\ UNCHANGED <<outcome, resp>>

\* Leaving _refresh_index, by return or by exception: the with-block releases
\* the refresh lock, and the caller goes on: search to _search_index, reindex
\* to its response, the background loop to its next wait.
Return(t, o) ==
    /\ refresh_lock' = NoThread
    /\ frame' = [frame EXCEPT ![t] = NoFrame]
    /\ IF req[t].kind = "search"
       THEN /\ pc' = [pc EXCEPT ![t] = "search_index"]
            /\ outcome' = [outcome EXCEPT ![t] = o]
            /\ UNCHANGED <<req, resp, bg_deadline>>
       ELSE IF req[t].kind = "reindex"
       THEN /\ pc' = [pc EXCEPT ![t] = "done"]
            /\ outcome' = [outcome EXCEPT ![t] = o]
            /\ resp' = [resp EXCEPT ![t] = ReindexResponse(req[t].mode, o)]
            /\ UNCHANGED <<req, bg_deadline>>
       ELSE /\ pc' = [pc EXCEPT ![t] = "wait"]
            /\ req' = [req EXCEPT ![t] = NoReq]
            /\ bg_deadline' = [bg_deadline EXCEPT
                                   ![t] = clock + _background_sync_seconds]
            /\ UNCHANGED <<outcome, resp>>

\* Variant: the caller enters without waiting for the lock.
AcquireRefreshLock_NoWait(t) ==
    /\ pc[t] = "refresh_lock"
    /\ refresh_lock' = t
    /\ frame' = [frame EXCEPT ![t] = [NoFrame EXCEPT !.now = clock]]
    /\ pc' = [pc EXCEPT ![t] = "snapshot"]
    /\ UNCHANGED <<globals, index_lock, lifecycle, req, outcome, docs, resp,
                   bg_deadline, env, history>>

\* with _refresh_lock: the caller waits until the lock is free; then it reads
\* the wall clock.
AcquireRefreshLock(t) ==
    /\ pc[t] = "refresh_lock"
    /\ refresh_lock = NoThread
    /\ refresh_lock' = t
    /\ frame' = [frame EXCEPT ![t] = [NoFrame EXCEPT !.now = clock]]
    /\ pc' = [pc EXCEPT ![t] = "snapshot"]
    /\ UNCHANGED <<globals, index_lock, lifecycle, req, outcome, docs, resp,
                   bg_deadline, env, history>>

\* The first block under the index lock: size and copy of the index, and the
\* debounce decision.
Snapshot(t) ==
    /\ pc[t] = "snapshot"
    /\ index_lock = NoThread
    /\ frame' = [frame EXCEPT ![t] =
                    [@ EXCEPT !.current_size = Size(index_by_path),
                              !.previous = index_by_path,
                              !.should_skip = ShouldSkip(req[t].mode,
                                                         req[t].bypass_interval,
                                                         frame[t].now,
                                                         last_indexed_at)]]
    /\ pc' = [pc EXCEPT ![t] = "decide"]
    /\ g' = [g EXCEPT ![t] =
                [@ EXCEPT !.pre = installed,
                          !.within = /\ search_swap.at > 0
                                     /\ frame[t].now - search_swap.at
                                            < _refresh_interval_seconds]]
    /\ UNCHANGED <<globals, locks, lifecycle, req, outcome, docs, resp,
                   bg_deadline, env, swaps, prev_search>>

\* if should_skip: return the "skipped" summary.
SkipReturn(t) ==
    /\ pc[t] = "decide"
    /\ frame[t].should_skip
    /\ Return(t, [raised |-> "none",
                  summary |-> SkippedSummary(req[t].mode, frame[t].current_size)])
    /\ UNCHANGED <<globals, index_lock, lifecycle, docs, env, history>>

\* The workspace root exists and is a directory.
RootFound(t) ==
    /\ pc[t] = "decide"
    /\ ~frame[t].should_skip
    /\ root_exists
    /\ pc' = [pc EXCEPT ![t] = "scan"]
    /\ UNCHANGED <<globals, locks, lifecycle, req, frame, outcome, docs, resp,
                   bg_deadline, env, history>>

\* Variant: the failing refresh drops the index.
RootMissing_ClearsIndex(t) ==
    /\ pc[t] = "decide"
    /\ ~frame[t].should_skip
    /\ ~root_exists
    /\ index_lock = NoThread
    /\ last_refresh_error' = RootNotFoundMessage
    /\ index_by_path' = EmptyMap
    /\ Return(t, [raised |-> "FileNotFoundError", summary |-> EmptyDict])
    /\ UNCHANGED <<last_indexed_at, last_refresh_mode, last_refresh_summary,
                   index_lock, lifecycle, docs, env, history>>

\* The workspace root is missing: record the error under the index lock and
\* raise FileNotFoundError.
RootMissing(t) ==
    /\ pc[t] = "decide"
    /\ ~frame[t].should_skip
    /\ ~root_exists
    /\ index_lock = NoThread
    /\ last_refresh_error' = RootNotFoundMessage
    /\ Return(t, [raised |-> "FileNotFoundError", summary |-> EmptyDict])
    /\ UNCHANGED <<index_by_path, last_indexed_at, last_refresh_mode,
                   last_refresh_summary, index_lock, lifecycle, docs, env, history>>

\* _scan_workspace_files and the copy of its diagnostics.
Scan(t) ==
    LET scan == _scan_workspace_files(root_exists, files)
    IN  /\ pc[t] = "scan"
        /\ frame' = [frame EXCEPT ![t] =
                        [@ EXCEPT !.scanned = scan.candidates,
                                  !.diagnostics = AppendAll(<<>>, scan.diagnostics)]]
        /\ pc' = [pc EXCEPT ![t] = "build"]
        /\ UNCHANGED <<globals, locks, lifecycle, req, outcome, docs, resp,
                       bg_deadline, env, history>>

\* Variant: a record reused for its hash is refreshed in place, in the dict
\* that the index holds too.
Build_RefreshInPlace(t, faults) ==
    LET acc == BuildIndex([NoAcc EXCEPT !.diagnostics = frame[t].diagnostics],
                          frame[t].scanned, frame[t].previous, req[t].mode,
                          root_exists, files, faults)
    IN  /\ pc[t] = "build"
        /\ index_by_path' =
               [p \in DOMAIN index_by_path |->
                   IF /\ p \in DOMAIN acc.updated
                      /\ acc.updated[p].contentHash = index_by_path[p].contentHash
                   THEN acc.updated[p]
                   ELSE index_by_path[p]]
        /\ IF acc.crashed
           THEN Return(t, [raised |-> "Exception", summary |-> EmptyDict])
           ELSE /\ frame' = [frame EXCEPT ![t] =
                                [@ EXCEPT !.updated = acc.updated,
                                          !.diagnostics = acc.diagnostics,
                                          !.summary = OkSummary(req[t].mode,
                                                                frame[t].previous,
                                                                frame[t].scanned,
                                                                acc)]]
                /\ pc' = [pc EXCEPT ![t] = "finalize"]
                /\ UNCHANGED <<refresh_lock, req, outcome, resp, bg_deadline>>
        /\ UNCHANGED <<last_indexed_at, last_refresh_mode, last_refresh_summary,
                       last_refresh_error, index_lock, lifecycle, docs, env, history>>

\* The per-file loop and the summary; an exception that is no OSError leaves
\* _refresh_index before the swap.
Build(t, faults) ==
    LET acc == BuildIndex([NoAcc EXCEPT !.diagnostics = frame[t].diagnostics],
                          frame[t].scanned, frame[t].previous, req[t].mode,
                          root_exists, files, faults)
    IN  /\ pc[t] = "build"
        /\ IF acc.crashed
           THEN Return(t, [raised |-> "Exception", summary |-> EmptyDict])
           ELSE /\ frame' = [frame EXCEPT ![t] =
                                [@ EXCEPT !.updated = acc.updated,
                                          !.diagnostics = acc.diagnostics,
                                          !.summary = OkSummary(req[t].mode,
                                                                frame[t].previous,
                                                                frame[t].scanned,
                                                                acc)]]
                /\ pc' = [pc EXCEPT ![t] = "finalize"]
                /\ UNCHANGED <<refresh_lock, req, outcome, resp, bg_deadline>>
        /\ UNCHANGED <<globals, index_lock, lifecycle, docs, env, history>>

\* _finalize_refresh_state: take the index lock and clear the map ...
FinalizeClear(t) ==
    /\ pc[t] = "finalize"
    /\ index_lock = NoThread
    /\ index_lock' = t
    /\ index_by_path' = EmptyMap
    /\ pc' = [pc EXCEPT ![t] = "fin_update"]
    /\ UNCHANGED <<last_indexed_at, last_refresh_mode, last_refresh_summary,
                   last_refresh_error, refresh_lock, lifecycle, req, frame,
                   outcome, docs, resp, bg_deadline, env, history>>

\* Variant: the cleared map is not filled.
FinalizeUpdate_LeavesCleared(t) ==
    /\ pc[t] = "fin_update"
    /\ pc' = [pc EXCEPT ![t] = "fin_meta"]
    /\ UNCHANGED <<globals, locks, lifecycle, req, frame, outcome, docs, resp,
                   bg_deadline, env, history>>

\* Variant: the index lock is released once the map is filled, before the
\* refresh metadata are written.
FinalizeUpdate_ReleasesLock(t) ==
    /\ pc[t] = "fin_update"
    /\ index_by_path' = frame[t].updated
    /\ index_lock' = NoThread
    /\ pc' = [pc EXCEPT ![t] = "fin_meta"]
    /\ UNCHANGED <<last_indexed_at, last_refresh_mode, last_refresh_summary,
                   last_refresh_error, refresh_lock, lifecycle, req, frame, outcome,
                   docs, resp, bg_deadline, env, history>>

\* ... fill it from the new map ...
FinalizeUpdate(t) ==
    /\ pc[t] = "fin_update"
    /\ index_by_path' = frame[t].updated
    /\ pc' = [pc EXCEPT ![t] = "fin_meta"]
    /\ UNCHANGED <<last_indexed_at, last_refresh_mode, last_refresh_summary,
                   last_refresh_error, locks, lifecycle, req, frame, outcome,
                   docs, resp, bg_deadline, env, history>>

\* ... write the refresh metadata and release the index lock.
FinalizeMeta(t) ==
    /\ pc[t] = "fin_meta"
    /\ last_indexed_at' = clock
    /\ last_refresh_mode' = req[t].mode
    /\ last_refresh_summary' = frame[t].summary
    /\ last_refresh_error' = "None"
    /\ index_lock' = NoThread
    /\ pc' = [pc EXCEPT ![t] = "return"]
    /\ installed' = index_by_path
    /\ installer' = t
    /\ search_swap' = IF req[t].kind = "search"
                      THEN [at |-> clock, map |-> index_by_path, latest |-> TRUE]
                      ELSE [search_swap EXCEPT !.latest = FALSE]
    /\ g' = [u \in Threads |->
                IF u # t /\ pc[u] = "search_index"
                THEN [g[u] EXCEPT !.swapped = TRUE]
                ELSE g[u]]
    /\ UNCHANGED <<index_by_path, refresh_lock, lifecycle, req, frame, outcome,
                   docs, resp, bg_deadline, env, prev_search>>

\* return summary
ReturnSummary(t) ==
    /\ pc[t] = "return"
    /\ Return(t, [raised |-> "none", summary |-> frame[t].summary])
    /\ UNCHANGED <<globals, index_lock, lifecycle, docs, env, history>>

\* ------------------------------------------------------------ search, second half
\* _search_index copies the index and ranks the copy; search builds the
\* response from the ranking and from what the refresh call left.
Respond(t) ==
    LET results == _search_index(index_by_path, req[t].query, req[t].limit)
        degraded == SearchDegraded(outcome[t])
        diagnostics == SearchDiagnostics(outcome[t])
        skipped == /\ outcome[t].raised = "none"
                   /\ outcome[t].summary.status = "skipped"
    IN  /\ docs' = [docs EXCEPT ![t] = index_by_path]
        /\ resp' = [resp EXCEPT ![t] =
                       [status |-> 200,
                        body |-> [query |-> req[t].query,
                                  total |-> Len(results),
                                  results |-> results,
                                  degraded |-> degraded,
                                  diagnostics |-> diagnostics]]]
        /\ pc' = [pc EXCEPT ![t] = "done"]
        /\ g' = [g EXCEPT ![t] = [@ EXCEPT !.expect = installed,
                                           !.fresh = search_swap.latest,
                                           !.smap = search_swap.map]]
        /\ prev_search' = [some |-> TRUE, skipped |-> skipped,
                           docs |-> index_by_path]
        /\ UNCHANGED <<globals, locks, lifecycle, req, frame, outcome,
                       bg_deadline, env, swaps>>

\* Variant: the copy is taken without the index lock.
CanSnapshot_NoLock(t) ==
    pc[t] = "search_index"

\* Variant: the copy waits for the refresh lock as well.
CanSnapshot_AfterRefresh(t) ==
    /\ pc[t] = "search_index"
    /\ index_lock = NoThread
    /\ refresh_lock = NoThread

\* with _index_lock in _search_index: all that the search waits for once its
\* refresh call is over.
CanSnapshot(t) ==
    /\ pc[t] = "search_index"
    /\ index_lock = NoThread

\* The second half of search: _search_index takes its copy under the index
\* lock, and the handler responds.
SearchIndex(t) ==
    /\ CanSnapshot(t)
    /\ Respond(t)

\* ------------------------------------------------------------ background worker
\* Thread(target=_background_loop, ...): a Thread object that is not running.
NewThread == IF ~IsAlive(Worker) THEN Worker ELSE "bg2"

\* Variant: the worker is started without asking whether one is alive.
StartBackgroundSync_NoAliveCheck ==
    IF _background_sync_seconds <= 0
    THEN UNCHANGED <<globals, locks, lifecycle, locals, env, history>>
    ELSE /\ \E w \in Workers : ~IsAlive(w)
         /\ background_stop' = FALSE
         /\ background_thread' = NewThread
         /\ pc' = [pc EXCEPT ![NewThread] = "wait"]
         /\ bg_deadline' = [bg_deadline EXCEPT
                                ![NewThread] = clock + _background_sync_seconds]
         /\ UNCHANGED <<globals, locks, req, frame, outcome, docs, resp, env,
                        history>>

\* _start_background_sync: nothing when the interval is not positive or the
\* worker is alive; otherwise clear the stop event and start a new worker,
\* which enters its first wait.
StartBackgroundSync ==
    IF _background_sync_seconds <= 0 \/ WorkerAlive
    THEN UNCHANGED <<globals, locks, lifecycle, locals, env, history>>
    ELSE /\ \E w \in Workers : ~IsAlive(w)
         /\ background_stop' = FALSE
         /\ background_thread' = NewThread
         /\ pc' = [pc EXCEPT ![NewThread] = "wait"]
         /\ bg_deadline' = [bg_deadline EXCEPT
                                ![NewThread] = clock + _background_sync_seconds]
         /\ UNCHANGED <<globals, locks, req, frame, outcome, docs, resp, env,
                        history>>

\* _stop_background_sync: set the stop event.
StopBackgroundSync ==
    /\ background_stop' = TRUE
    /\ UNCHANGED <<globals, locks, background_thread, locals, env, history>>

\* _background_loop: the wait returns true once the stop event is set, and the
\* loop ends.
WorkerStops(w) ==
    /\ pc[w] = "wait"
    /\ background_stop
    /\ pc' = [pc EXCEPT ![w] = "exited"]
    /\ UNCHANGED <<globals, locks, lifecycle, req, frame, outcome, docs, resp,
                   bg_deadline, env, history>>

\* Variant: the loop sleeps and goes on whether the stop event is set or not.
WorkerTick_IgnoresStop(w) ==
    /\ pc[w] = "wait"
    /\ clock >= bg_deadline[w]
    /\ nreq < MaxRequests
    /\ nreq' = nreq + 1
    /\ req' = [req EXCEPT ![w] =
                  [kind |-> "background", mode |-> "incremental",
                   bypass_interval |-> TRUE, query |-> <<>>, limit |-> 0]]
    /\ pc' = [pc EXCEPT ![w] = "refresh_lock"]
    /\ g' = [g EXCEPT ![w] = [NoGhost EXCEPT !.root_gone = ~root_exists]]
    /\ UNCHANGED <<globals, locks, lifecycle, frame, outcome, docs, resp,
                   bg_deadline, clock, root_exists, files, swaps, prev_search>>

\* _background_loop: the wait times out and the loop calls _refresh_index.
WorkerTick(w) ==
    /\ pc[w] = "wait"
    /\ ~background_stop
    /\ clock >= bg_deadline[w]
    /\ nreq < MaxRequests
    /\ nreq' = nreq + 1
    /\ req' = [req EXCEPT ![w] =
                  [kind |-> "background", mode |-> "incremental",
                   bypass_interval |-> TRUE, query |-> <<>>, limit |-> 0]]
    /\ pc' = [pc EXCEPT ![w] = "refresh_lock"]
    /\ g' = [g EXCEPT ![w] = [NoGhost EXCEPT !.root_gone = ~root_exists]]
    /\ UNCHANGED <<globals, locks, lifecycle, frame, outcome, docs, resp,
                   bg_deadline, clock, root_exists, files, swaps, prev_search>>

\* ------------------------------------------------------------ specification
\* The extraction of "ab.docx" dies of an exception that is no OSError.
CrashFaults == [NoFaults EXCEPT ![PathA] = "crash"]

Next ==
    \/ Tick /\ UNCHANGED observers
    \/ WriteFile(PathA, 2) /\ UNCHANGED observers
    \/ RemoveRoot /\ UNCHANGED observers
    \/ RestoreRoot /\ UNCHANGED observers
    \/ \E t \in Handlers : StartSearch(t, <<32, 97, 98>>, <<>>) /\ UNCHANGED observers
    \/ \E t \in Handlers, m \in {"", "incremental"} : StartReindex(t, m) /\ UNCHANGED observers
    \/ \E t \in Threads : AcquireRefreshLock(t) /\ UNCHANGED observers
    \/ \E t \in Threads : Snapshot(t) /\ UNCHANGED observers
    \/ \E t \in Threads : SkipReturn(t) /\ UNCHANGED observers
    \/ \E t \in Threads : RootFound(t) /\ UNCHANGED observers
    \/ \E t \in Threads : RootMissing(t) /\ UNCHANGED observers
    \/ \E t \in Threads : Scan(t) /\ UNCHANGED observers
    \/ \E t \in Threads, faults \in {NoFaults, CrashFaults} : Build(t, faults) /\ UNCHANGED observers
    \/ \E t \in Threads : FinalizeClear(t) /\ UNCHANGED observers
    \/ \E t \in Threads : FinalizeUpdate(t) /\ UNCHANGED observers
    \/ \E t \in Threads : FinalizeMeta(t) /\ UNCHANGED observers
    \/ \E t \in Threads : ReturnSummary(t) /\ UNCHANGED observers
    \/ \E t \in Handlers : SearchIndex(t) /\ UNCHANGED observers
    \/ StartBackgroundSync /\ UNCHANGED observers
    \/ WorkerTick(Worker) /\ UNCHANGED observers

Spec == Init /\ [][Next]_vars

\* ------------------------------------------------------------ one handler
\* A server that answers one request at a time, with no background worker,
\* over a workspace root that stays; between two requests time passes and
\* "ab.docx" is written or deleted, and within a refresh any one file is hit
\* by an I/O fault.  watch records what each refresh met.
SeqStartSearch(t, raw_query, raw_limit) ==
    /\ StartSearch(t, raw_query, raw_limit)
    /\ watch' = [watch EXCEPT !.raw_query = raw_query, !.raw_limit = raw_limit]
    /\ UNCHANGED probe

SeqScan(t) ==
    /\ Scan(t)
    /\ watch' = [watch EXCEPT !.seen = [root |-> root_exists, files |-> files]]
    /\ UNCHANGED probe

SeqBuild(t, faults) ==
    /\ Build(t, faults)
    /\ watch' = [watch EXCEPT !.faults = faults]
    /\ UNCHANGED probe

SeqFinalizeMeta(t) ==
    /\ FinalizeMeta(t)
    /\ watch' = [watch EXCEPT !.swap_seen = watch.seen]
    /\ UNCHANGED probe

NextSeq ==
    \/ Free("h1") /\ Tick /\ UNCHANGED observers
    \/ \E d \in DataValues :
           /\ Free("h1")
           /\ files[PathA].mtime < MaxWrites
           /\ WriteFile(PathA, d)
           /\ UNCHANGED observers
    \/ Free("h1") /\ DeleteFile(PathA) /\ UNCHANGED observers
    \/ \E q \in RawQueries, l \in RawLimits : SeqStartSearch("h1", q, l)
    \/ \E m \in RawModes : StartReindex("h1", m) /\ UNCHANGED observers
    \/ Health("h1") /\ UNCHANGED observers
    \/ AcquireRefreshLock("h1") /\ UNCHANGED observers
    \/ Snapshot("h1") /\ UNCHANGED observers
    \/ SkipReturn("h1") /\ UNCHANGED observers
    \/ RootFound("h1") /\ UNCHANGED observers
    \/ SeqScan("h1")
    \/ \E faults \in FaultChoices : SeqBuild("h1", faults)
    \/ FinalizeClear("h1") /\ UNCHANGED observers
    \/ FinalizeUpdate("h1") /\ UNCHANGED observers
    \/ SeqFinalizeMeta("h1")
    \/ ReturnSummary("h1") /\ UNCHANGED observers
    \/ SearchIndex("h1") /\ UNCHANGED observers

SpecSeq == Init /\ [][NextSeq]_vars

\* ------------------------------------------------------------ properties
\* Thread t is between acquiring and releasing the refresh lock.
InRefresh(t) ==
    pc[t] \in {"snapshot", "decide", "scan", "build", "finalize", "fin_update",
               "fin_meta", "return"}

\* Thread t has taken the first snapshot of its refresh.
PastSnapshot(t) ==
    pc[t] \in {"decide", "scan", "build", "finalize", "fin_update", "fin_meta",
               "return"}

\* Handler t has answered a /search with a valid query.
Answered(t) ==
    /\ pc[t] = "done"
    /\ req[t].kind = "search"
    /\ resp[t].status = 200

\* The refresh call of handler t returned the "skipped" summary.
Skipped(t) ==
    /\ outcome[t].raised = "none"
    /\ outcome[t].summary # EmptyDict
    /\ outcome[t].summary.status = "skipped"

\* The response of handler t carries a diagnostic that starts with
\* "refresh-failed:".
HasRefreshFailed(t) ==
    \E i \in DOMAIN resp[t].body.diagnostics :
        resp[t].body.diagnostics[i][1] = "refresh-failed"

\* The debounce condition in terms of the globals: incremental, no bypass, a
\* refresh has completed, and the clock read by this call is less than the
\* refresh interval after lastIndexedAt.
DebounceCase(t) ==
    /\ req[t].mode = "incremental"
    /\ ~req[t].bypass_interval
    /\ last_indexed_at > 0
    /\ frame[t].now - last_indexed_at < _refresh_interval_seconds

\* C1: single-flight refresh -- at any time at most one thread (handler of
\* /search, handler of /reindex, background worker) is between acquiring and
\* releasing the refresh lock, and a caller that arrives meanwhile cannot
\* enter.
C1_SingleFlight ==
    /\ Cardinality({t \in Threads : InRefresh(t)}) <= 1
    /\ \A t \in Threads :
          (pc[t] = "refresh_lock" /\ \E u \in Threads \ {t} : InRefresh(u))
              => ~ENABLED AcquireRefreshLock(t)

\* A caller waits at the refresh lock while another one scans the workspace.
C1_Witness ==
    \E t, u \in Threads : pc[t] = "refresh_lock" /\ pc[u] = "scan"

\* C2: snapshot atomicity -- the records an answered search evaluated are
\* exactly the map that the latest completed swap had installed when the
\* snapshot was taken (the empty map before any swap), and the results are
\* the ranking of that snapshot.
C2_SnapshotAtomic ==
    \A t \in Handlers :
        Answered(t) =>
            /\ docs[t] = g[t].expect
            /\ resp[t].body.results
                   = _search_index(docs[t], req[t].query, req[t].limit)

\* A search was answered from a filled map that another caller's swap
\* installed after the search's own refresh call had returned.
C2_Witness ==
    \E t \in Handlers :
        /\ Answered(t)
        /\ g[t].swapped
        /\ docs[t] # EmptyMap
        /\ docs[t] # g[t].pre

C5_Debounce ==
    [][ \A t \in Threads :
          (pc[t] = "decide" /\ pc'[t] # "decide" /\ DebounceCase(t)) =>
              /\ pc'[t] = "search_index"
              /\ outcome'[t].raised = "none"
              /\ outcome'[t].summary.status = "skipped"
              /\ outcome'[t].summary.indexedFiles = Size(index_by_path)
              /\ outcome'[t].summary.scannedFiles = 0
              /\ outcome'[t].summary.reusedFiles = 0
              /\ outcome'[t].summary.updatedFiles = 0
              /\ outcome'[t].summary.removedFiles = 0
              /\ outcome'[t].summary.failedFiles = 0
              /\ globals' = globals
              /\ refresh_lock' = NoThread ]_vars

\* A debounced refresh has returned "skipped" with the count of a filled
\* index, although the workspace root is missing.
C5_Witness ==
    \E t \in Handlers :
        /\ pc[t] = "search_index"
        /\ Skipped(t)
        /\ outcome[t].summary.indexedFiles = 2
        /\ g[t].root_gone

C7_NoDebounceWhenForced ==
    \A t \in Threads :
        (req[t].kind \in {"reindex", "background"} \/ req[t].mode = "full") =>
            /\ pc[t] = "decide" => ~frame[t].should_skip
            /\ pc[t] = "decide" =>
                   /\ ~ENABLED SkipReturn(t)
                   /\ ENABLED RootFound(t) \/ ENABLED RootMissing(t)
            /\ ~Skipped(t)
            /\ \A now \in 0..MaxClock, indexed_at \in 0..MaxClock :
                   /\ ~ShouldSkip("full", FALSE, now, indexed_at)
                   /\ ~ShouldSkip(req[t].mode, TRUE, now, indexed_at)

\* An incremental /reindex or a background tick went on to the scan over a
\* filled index less than the refresh interval after the last refresh.
C7_Witness ==
    \E t \in Threads :
        /\ req[t].kind \in {"reindex", "background"}
        /\ req[t].mode = "incremental"
        /\ pc[t] = "scan"
        /\ frame[t].previous # EmptyMap
        /\ last_indexed_at > 0
        /\ frame[t].now - last_indexed_at < _refresh_interval_seconds

\* C8: when a refresh that is not debounced finds the workspace root missing,
\* it raises FileNotFoundError (503 WORKSPACE_ROOT_NOT_FOUND from /reindex),
\* sets lastRefreshError, and leaves the index map, lastIndexedAt,
\* lastRefreshMode and lastRefreshSummary as they were when the call started.
C8_RootMissingKeepsIndex ==
    [][ \A t \in Threads :
          ( /\ pc[t] = "decide" /\ pc'[t] # "decide"
            /\ ~DebounceCase(t)
            /\ ~root_exists ) =>
              /\ last_refresh_error' = RootNotFoundMessage
              /\ index_by_path' = frame[t].previous
              /\ index_by_path' = index_by_path
              /\ last_indexed_at' = last_indexed_at
              /\ last_refresh_mode' = last_refresh_mode
              /\ last_refresh_summary' = last_refresh_summary
              /\ refresh_lock' = NoThread
              /\ req[t].kind = "reindex" =>
                     resp'[t] = [status |-> 503,
                                 errorCode |-> "WORKSPACE_ROOT_NOT_FOUND"]
              /\ req[t].kind = "search" =>
                     outcome'[t].raised = "FileNotFoundError" ]_vars

\* A /reindex was answered 503 WORKSPACE_ROOT_NOT_FOUND and the filled index
\* is still there.
C8_Witness ==
    \E t \in Handlers :
        /\ pc[t] = "done" /\ req[t].kind = "reindex"
        /\ resp[t].status = 503
        /\ last_refresh_error = RootNotFoundMessage
        /\ Size(index_by_path) = 2
        /\ last_indexed_at > 0

\* C9 as stated: whenever the workspace root is missing while a /search with
\* a valid query is handled, the response is degraded and carries a
\* refresh-failed diagnostic.
C9_RootMissingAlwaysDegraded ==
    \A t \in Handlers :
        (Answered(t) /\ g[t].root_gone) =>
            /\ resp[t].body.degraded
            /\ HasRefreshFailed(t)

\* C9, amended: when the workspace root is missing while a /search with a
\* valid query is handled and the refresh of that search is not debounced,
\* the response is degraded and carries a refresh-failed diagnostic.
C9_RootMissingDegradedUnlessSkipped ==
    \A t \in Handlers :
        (Answered(t) /\ g[t].root_gone /\ ~Skipped(t)) =>
            /\ resp[t].body.degraded
            /\ HasRefreshFailed(t)

\* A search handled with the root missing was answered degraded from a filled
\* index.
C9_Witness ==
    \E t \in Handlers :
        /\ Answered(t) /\ g[t].root_gone /\ ~Skipped(t)
        /\ resp[t].body.degraded
        /\ docs[t] # EmptyMap

OOXML_EXTENSIONS == {<<46, 100, 111, 99, 120>>, <<46, 112, 112, 116, 120>>, <<46, 120, 108, 115, 120>>}
OFFICE_FILE_EXTENSIONS ==
    {<<46, 100, 111, 99>>,
     <<46, 100, 111, 99, 120>>,
     <<46, 112, 112, 116>>,
     <<46, 112, 112, 116, 120>>,
     <<46, 120, 108, 115>>,
     <<46, 120, 108, 115, 120>>}
EXCLUDED_DIRECTORY_NAMES ==
    {<<46, 103, 105, 116>>,
     <<46, 110, 101, 120, 116>>,
     <<110, 111, 100, 101, 95, 109, 111, 100, 117, 108, 101, 115>>,
     <<100, 105, 115, 116>>,
     <<98, 117, 105, 108, 100>>,
     <<99, 111, 118, 101, 114, 97, 103, 101>>,
     <<46, 116, 117, 114, 98, 111>>,
     <<46, 99, 97, 99, 104, 101>>}
PdfExtension == <<46, 112, 100, 102>>

\* pathlib's PurePath.suffix of a file name.
Suffix(name) ==
    LET dots == {i \in 1..Len(name) : name[i] = 46}
        last == IF dots = {} THEN 0 ELSE CHOOSE i \in dots : \A j \in dots : j <= i
    IN  IF last > 1 /\ last < Len(name) THEN SubSeq(name, last, Len(name)) ELSE <<>>

\* Variant: the directory name is compared as it is spelled.
_is_included_directory_AsSpelled(name) ==
    /\ ~StartsWith(name, <<46>>)
    /\ name \notin EXCLUDED_DIRECTORY_NAMES

_is_included_directory(name) ==
    LET normalized == Lower(name)
    IN  /\ ~StartsWith(normalized, <<46>>)
        /\ normalized \notin EXCLUDED_DIRECTORY_NAMES

_is_office_candidate(name, include_pdf) ==
    LET extension == Lower(Suffix(name))
    IN  \/ extension \in OFFICE_FILE_EXTENSIONS
        \/ extension = PdfExtension /\ include_pdf

\* Path.as_posix() of a path relative to the root: the names joined by "/".
RECURSIVE AsPosix(_)
AsPosix(names) ==
    IF names = <<>> THEN <<>>
    ELSE IF Len(names) = 1 THEN names[1]
    ELSE names[1] \o <<47>> \o AsPosix(Tail(names))

\* _relative_file_path of a directory, "." for the root itself.
RelativeDir(directory) == IF directory = <<>> THEN <<46>> ELSE AsPosix(directory)

\* The names directory.iterdir() yields.
EntryNames(tree_files, directory) ==
    {f[Len(directory) + 1] :
        f \in {h \in tree_files : Len(h) > Len(directory)
                                   /\ SubSeq(h, 1, Len(directory)) = directory}}

\* The loop over the sorted entries of one directory: subdirectories go to
\* the queue, files that pass the name and extension tests to the candidates.
RECURSIVE ScanEntries(_, _, _, _, _)
ScanEntries(entries, directory, tree_files, include_pdf, st) ==
    IF entries = <<>> THEN st
    ELSE LET name == Head(entries)
             entry == Append(directory, name)
         IN  IF entry \notin tree_files
             THEN ScanEntries(Tail(entries), directory, tree_files, include_pdf,
                              IF _is_included_directory(name)
                              THEN [st EXCEPT !.queue = Append(@, entry)]
                              ELSE st)
             ELSE IF \/ StartsWith(name, <<46>>)
                     \/ StartsWith(name, <<126, 36>>)
                     \/ ~_is_office_candidate(name, include_pdf)
             THEN ScanEntries(Tail(entries), directory, tree_files, include_pdf, st)
             ELSE IF Len(st.candidates) + 1 >= MAX_INDEXED_FILES
             THEN [st EXCEPT !.candidates = Append(@, entry)]
             ELSE ScanEntries(Tail(entries), directory, tree_files, include_pdf,
                              [st EXCEPT !.candidates = Append(@, entry)])

\* Variant: the loop does not count the directories it has read.
ScanGoesOn_NoDirectoryBudget(queue, visited, candidates) ==
    /\ queue # <<>>
    /\ Len(candidates) < MAX_INDEXED_FILES

\* The condition of the while loop of _scan_workspace_files.
ScanGoesOn(queue, visited, candidates) ==
    /\ queue # <<>>
    /\ Cardinality(visited) < MAX_SCAN_DIRECTORIES
    /\ Len(candidates) < MAX_INDEXED_FILES

\* The while loop of _scan_workspace_files over the queue of directories.
RECURSIVE ScanQueue(_, _, _, _)
ScanQueue(tree_files, unreadable, include_pdf, st) ==
    IF ~ScanGoesOn(st.queue, st.visited, st.candidates)
    THEN st
    ELSE LET directory == Head(st.queue)
             popped == [st EXCEPT !.queue = Tail(@)]
             entered == [popped EXCEPT !.visited = @ \cup {directory}]
         IN  IF directory \in st.visited
             THEN ScanQueue(tree_files, unreadable, include_pdf, popped)
             ELSE IF directory \in unreadable
             THEN ScanQueue(tree_files, unreadable, include_pdf,
                            [entered EXCEPT !.diagnostics =
                                _append_diagnostic(@, <<"directory-unreadable",
                                                        RelativeDir(directory)>>)])
             ELSE ScanQueue(tree_files, unreadable, include_pdf,
                            ScanEntries(SortedByName(EntryNames(tree_files, directory)),
                                        directory, tree_files, include_pdf, entered))

\* _scan_workspace_files over a tree: the candidates as relative paths.
ScanTree(tree_files, unreadable, include_pdf) ==
    LET st == ScanQueue(tree_files, unreadable, include_pdf,
                        [queue |-> << <<>> >>, visited |-> {},
                         candidates |-> <<>>, diagnostics |-> <<>>])
    IN  [candidates |-> [i \in DOMAIN st.candidates |-> AsPosix(st.candidates[i])],
         diagnostics |-> st.diagnostics]

\* The files a workspace may hold:
\*   a.docx
\*   docs/B.DOCX
\*   docs/c.pdf
\*   docs/d.txt
\*   docs/.e.xls
\*   docs/~$f.ppt
\*   .git/g.doc
\*   docs/Build/h.pptx
\*   docs/sub/i.xlsx
\*   x.docx/j.docx
TreeUniverse ==
    {<<<<97, 46, 100, 111, 99, 120>>>>,
     <<<<100, 111, 99, 115>>, <<66, 46, 68, 79, 67, 88>>>>,
     <<<<100, 111, 99, 115>>, <<99, 46, 112, 100, 102>>>>,
     <<<<100, 111, 99, 115>>, <<100, 46, 116, 120, 116>>>>,
     <<<<100, 111, 99, 115>>, <<46, 101, 46, 120, 108, 115>>>>,
     <<<<100, 111, 99, 115>>, <<126, 36, 102, 46, 112, 112, 116>>>>,
     <<<<46, 103, 105, 116>>, <<103, 46, 100, 111, 99>>>>,
     <<<<100, 111, 99, 115>>, <<66, 117, 105, 108, 100>>, <<104, 46, 112, 112, 116, 120>>>>,
     <<<<100, 111, 99, 115>>, <<115, 117, 98>>, <<105, 46, 120, 108, 115, 120>>>>,
     <<<<120, 46, 100, 111, 99, 120>>, <<106, 46, 100, 111, 99, 120>>>>}
\* A path the previous index may hold though no file has it any more: "old.doc".
StalePath == <<111, 108, 100, 46, 100, 111, 99>>
StaleRecord ==
    [filePath |-> StalePath, title |-> StalePath, subtitle |-> StalePath,
     content |-> <<>>, sourceMeta |-> [extractor |-> "opensearch-disabled"],
     mtimeNs |-> 0, sizeBytes |-> 1, contentHash |-> <<"sha256", 1>>]

\* The scan and the per-file loop over a tree whose files all hold bytes 1.
RefreshTree(tree_files, unreadable, include_pdf, mode, previous) ==
    LET scan == ScanTree(tree_files, unreadable, include_pdf)
        keys == {AsPosix(f) : f \in tree_files}
        fs == [k \in keys \cup {StalePath} |->
                  IF k \in keys THEN File(0, 1) ELSE NoFile]
        acc == BuildIndex([NoAcc EXCEPT !.diagnostics = AppendAll(<<>>, scan.diagnostics)],
                          scan.candidates, previous, mode, TRUE, fs,
                          [k \in keys \cup {StalePath} |-> "none"])
    IN  [scanned |-> scan.candidates, updated |-> acc.updated,
         summary |-> OkSummary(mode, previous, scan.candidates, acc)]


NoTreeResult == [scanned |-> <<>>, updated |-> EmptyMap, summary |-> EmptyDict]

\* One refresh of one tree: any set of the files above, the directory "docs"
\* readable or not, PDF inclusion on or off, a full refresh over an empty
\* index or an incremental one over an index that holds the stale path.
TreeProbes ==
    {[fn |-> "refresh_tree", tree |-> tr, unreadable |-> un, include_pdf |-> pdf,
      mode |-> mp[1], previous |-> mp[2], done |-> FALSE, out |-> NoTreeResult] :
        tr \in SUBSET TreeUniverse,
        un \in {{}, {<<<<100, 111, 99, 115>>>>}},
        pdf \in BOOLEAN,
        mp \in {<<"full", EmptyMap>>,
                <<"incremental", [k \in {StalePath} |-> StaleRecord]>>}}

InitTree == InitProgram /\ probe \in TreeProbes

ApplyRefreshTree ==
    /\ probe.fn = "refresh_tree"
    /\ ~probe.done
    /\ probe' = [probe EXCEPT !.done = TRUE,
                              !.out = RefreshTree(probe.tree, probe.unreadable,
                                                  probe.include_pdf, probe.mode,
                                                  probe.previous)]
    /\ UNCHANGED <<globals, locks, lifecycle, locals, env, history, watch>>

NextTree == ApplyRefreshTree

SpecTree == InitTree /\ [][NextTree]_vars

\* str.endswith
EndsWith(s, e) == Len(e) <= Len(s) /\ SubSeq(s, Len(s) - Len(e) + 1, Len(s)) = e

\* C12: after a refresh every key of the new index is the relative path of a
\* file of the workspace that the scan of this refresh returned; the file has
\* a permitted extension (.pdf only with PDF inclusion on), its name starts
\* with neither "." nor "~$", and no directory on its path is hidden or
\* excluded; a path the scan did not return is not in the index.
C12_KeysAreScannedOfficeFiles ==
    (probe.fn = "refresh_tree" /\ probe.done) =>
        \A key \in DOMAIN probe.out.updated :
            LET parts == SplitPath(key, <<>>)
                name == parts[Len(parts)]
                dirs == {parts[i] : i \in 1..(Len(parts) - 1)}
            IN  /\ \E f \in probe.tree : AsPosix(f) = key
                /\ \E i \in DOMAIN probe.out.scanned : probe.out.scanned[i] = key
                /\ \/ \E e \in OFFICE_FILE_EXTENSIONS : EndsWith(Lower(name), e)
                   \/ probe.include_pdf /\ EndsWith(Lower(name), PdfExtension)
                /\ name[1] # 46
                /\ ~(name[1] = 126 /\ name[2] = 36)
                /\ \A d \in dirs : d[1] # 46 /\ Lower(d) \notin EXCLUDED_DIRECTORY_NAMES

\* The incremental refresh of a tree that holds all the files above, without
\* PDF inclusion, over an index with the stale path: the index is a.docx,
\* docs/B.DOCX, docs/sub/i.xlsx and x.docx/j.docx.
C12_Witness ==
    /\ probe.fn = "refresh_tree"
    /\ probe.done
    /\ probe.tree = TreeUniverse
    /\ ~probe.include_pdf
    /\ probe.unreadable = {}
    /\ StalePath \in DOMAIN probe.previous
    /\ DOMAIN probe.out.updated = {<<97, 46, 100, 111, 99, 120>>,
                                  <<100, 111, 99, 115, 47, 66, 46, 68, 79, 67, 88>>,
                                  <<100, 111, 99, 115, 47, 115, 117, 98, 47, 105, 46, 120, 108, 115, 120>>,
                                  <<120, 46, 100, 111, 99, 120, 47, 106, 46, 100, 111, 99, 120>>}

\* ------------------------------------------------------------ search on its own
\* _search_index applied to an index, a parsed query and a limit.
\* The record the per-file loop makes of a file at the root.
Doc(path, content) ==
    [filePath |-> path, title |-> BaseName(path), subtitle |-> path,
     content |-> content,
     sourceMeta |-> [extractor |-> IF content # <<>> THEN "local-ooxml"
                                   ELSE "opensearch-disabled"],
     mtimeNs |-> 0, sizeBytes |-> 1, contentHash |-> <<"sha256", content>>]

\* The files an index may hold, each with the texts it may have:
\*   ab.docx with text "zz" or "x ab c"
\*   c.docx with text "x ab c" or "ab"
\*   d.docx with text "xabc" or "x ab c"
\*   xab.docx with text ""
\*   e.docx with text "zz" or 91 capital I with a dot above and " ab"
RankFiles ==
    {[path |-> <<97, 98, 46, 100, 111, 99, 120>>,
      contents |-> {<<122, 122>>, <<120, 32, 97, 98, 32, 99>>}],
     [path |-> <<99, 46, 100, 111, 99, 120>>,
      contents |-> {<<120, 32, 97, 98, 32, 99>>, <<97, 98>>}],
     [path |-> <<100, 46, 100, 111, 99, 120>>,
      contents |-> {<<120, 97, 98, 99>>, <<120, 32, 97, 98, 32, 99>>}],
     [path |-> <<120, 97, 98, 46, 100, 111, 99, 120>>,
      contents |-> {<<>>}],
     [path |-> <<101, 46, 100, 111, 99, 120>>,
      contents |-> {<<122, 122>>,
                    Repeat(304, DEFAULT_RADIUS + 1) \o <<32, 97, 98>>}]}

\* Every index that holds some of these files, each with one of its texts.
RankIndexes ==
    UNION {{[p \in {f.path : f \in fs} |->
                Doc(p, pick[CHOOSE f \in fs : f.path = p])] :
               pick \in {q \in [fs -> UNION {f.contents : f \in fs}] :
                             \A f \in fs : q[f] \in f.contents}} :
           fs \in SUBSET RankFiles}

\* "ab", "AB", "x ab" and "ab  c" as parse_query returns them.
RankQueries == {<<97, 98>>, <<65, 66>>, <<120, 32, 97, 98>>, <<97, 98, 32, 32, 99>>}
RankLimits == {1, 2, DEFAULT_LIMIT}

NoHits == <<>>

RankProbes ==
    {[fn |-> "search_index", index |-> ix, query |-> q, limit |-> l,
      done |-> FALSE, out |-> NoHits] :
        ix \in RankIndexes, q \in RankQueries, l \in RankLimits}

InitRank == InitProgram /\ probe \in RankProbes

ApplySearchIndex ==
    /\ probe.fn = "search_index"
    /\ ~probe.done
    /\ probe' = [probe EXCEPT !.done = TRUE,
                              !.out = _search_index(probe.index, probe.query,
                                                    probe.limit)]
    /\ UNCHANGED <<globals, locks, lifecycle, locals, env, history, watch>>

NextRank == ApplySearchIndex

SpecRank == InitRank /\ [][NextRank]_vars

\* The search on its own has been made.
Searched == probe.fn = "search_index" /\ probe.done

\* C15: every result has a score of at least 800 inside the band of its
\* matchKind: filename-exact from 3000, content-exact-phrase in [2000, 3000),
\* content-partial in [1000, 2000), filename-partial in [800, 1000).
C15_ScoreBands ==
    Searched =>
        \A i \in DOMAIN probe.out :
            LET score == probe.out[i].score
                kind == probe.out[i].sourceMeta.matchKind
            IN  /\ score >= 800
                /\ kind \in {"filename-exact", "content-exact-phrase",
                              "content-partial", "filename-partial"}
                /\ kind = "filename-exact" => score >= 3000
                /\ kind = "content-exact-phrase" => score >= 2000 /\ score < 3000
                /\ kind = "content-partial" => score >= 1000 /\ score < 2000
                /\ kind = "filename-partial" => score >= 800 /\ score < 1000

\* A search whose results are of all four kinds.
C15_Witness ==
    /\ Searched
    /\ {probe.out[i].sourceMeta.matchKind : i \in DOMAIN probe.out} =
           {"filename-exact", "content-exact-phrase", "content-partial",
            "filename-partial"}

\* The four rules in the words of their names, for a document of the index
\* and the needle (the query, lowercased, its whitespace normalised).
Needle(query) == Lower(_normalize_whitespace(query))

Occurs(text, n) == \E i \in 1..(Len(text) - Len(n) + 1) : SubSeq(text, i, i + Len(n) - 1) = n

OccursAsPhrase(text, n) ==
    \E i \in 1..(Len(text) - Len(n) + 1) :
        /\ SubSeq(text, i, i + Len(n) - 1) = n
        /\ i = 1 \/ text[i - 1] = 32
        /\ i + Len(n) - 1 = Len(text) \/ text[i + Len(n)] = 32

FilenameExactRule(doc, n) == Lower(Stem(doc.title)) = n

ContentExactPhraseRule(doc, n) ==
    OccursAsPhrase(Lower(_normalize_whitespace(doc.content)), n)

ContentPartialRule(doc, n) ==
    Occurs(Lower(_normalize_whitespace(doc.content)), n)

FilenamePartialRule(doc, n) ==
    \/ Occurs(Lower(doc.filePath), n)
    \/ Occurs(Lower(doc.title), n)

FirstRule(doc, n) ==
    IF FilenameExactRule(doc, n) THEN "filename-exact"
    ELSE IF ContentExactPhraseRule(doc, n) THEN "content-exact-phrase"
    ELSE IF ContentPartialRule(doc, n) THEN "content-partial"
    ELSE IF FilenamePartialRule(doc, n) THEN "filename-partial"
    ELSE "none"

Tier(kind) ==
    IF kind = "filename-exact" THEN 1
    ELSE IF kind = "content-exact-phrase" THEN 2
    ELSE IF kind = "content-partial" THEN 3
    ELSE 4

\* C16: in the result list every filename-exact result comes before every
\* content-exact-phrase result, that before every content-partial result,
\* that before every filename-partial result, and the kind of a result is the
\* first of the four rules, in this order, that its document matches.
C16_RankTiers ==
    Searched =>
        /\ \A i, j \in DOMAIN probe.out :
               i < j => Tier(probe.out[i].sourceMeta.matchKind)
                            <= Tier(probe.out[j].sourceMeta.matchKind)
        /\ \A i \in DOMAIN probe.out :
               probe.out[i].sourceMeta.matchKind =
                   FirstRule(probe.index[probe.out[i].filePath], Needle(probe.query))

\* The four kinds in their order, the first for a document whose text holds
\* the query as a phrase too.
C16_Witness ==
    /\ Searched
    /\ Len(probe.out) = 4
    /\ [i \in 1..4 |-> probe.out[i].sourceMeta.matchKind] =
           <<"filename-exact", "content-exact-phrase", "content-partial",
             "filename-partial">>
    /\ ContentExactPhraseRule(probe.index[probe.out[1].filePath], Needle(probe.query))

\* The documents of the index that match the query by one of the four rules.
Matching(index, query) ==
    {p \in DOMAIN index : FirstRule(index[p], Needle(query)) # "none"}

\* (score, filePath) of a is greater than that of b.
Outranks(a_score, a_path, b_score, b_path) ==
    \/ a_score > b_score
    \/ a_score = b_score /\ StrLess(b_path, a_path)

\* C17: the results are in descending order of (score, filePath), they are
\* the first limit of the matching documents in that order (no matching
\* document that is left out outranks a returned one), and no document is
\* returned twice.
C17_SortedFirstLimit ==
    Searched =>
        LET out == probe.out
            matching == Matching(probe.index, probe.query)
            returned == {out[i].filePath : i \in DOMAIN out}
            score_of(p) == _compute_ranked_match(probe.index[p].filePath,
                                                 probe.index[p].title,
                                                 probe.index[p].content,
                                                 Lower(probe.query)).score
        IN  /\ \A i, j \in DOMAIN out :
                   i < j => Outranks(out[i].score, out[i].filePath,
                                     out[j].score, out[j].filePath)
            /\ returned \subseteq matching
            /\ Cardinality(returned) = Len(out)
            /\ Len(out) = Min2(probe.limit, Cardinality(matching))
            /\ \A p \in matching \ returned : \A i \in DOMAIN out :
                   Outranks(out[i].score, out[i].filePath, score_of(p), p)

\* A search with limit 2 over more than two matching documents, the two
\* returned having the same score.
C17_Witness ==
    /\ Searched
    /\ probe.limit = 2
    /\ Cardinality(Matching(probe.index, probe.query)) > 2
    /\ Len(probe.out) = 2
    /\ probe.out[1].score = probe.out[2].score
    /\ StrLess(probe.out[2].filePath, probe.out[1].filePath)

\* C18: every indexed OOXML file whose extracted text contains the query is
\* matched by the search (it is returned when the matching documents are
\* within the limit), and the snippet of its result, lowercased, contains the
\* lowercased query.
C18_ContentHit ==
    Searched =>
        \A p \in DOMAIN probe.index :
            ( /\ \E e \in OOXML_EXTENSIONS : EndsWith(Lower(p), e)
              /\ Occurs(probe.index[p].content, probe.query) ) =>
                /\ Cardinality(Matching(probe.index, probe.query)) <= probe.limit =>
                       \E i \in DOMAIN probe.out : probe.out[i].filePath = p
                /\ \A i \in DOMAIN probe.out :
                       probe.out[i].filePath = p =>
                           /\ probe.out[i].snippet # None
                           /\ Occurs(Lower(probe.out[i].snippet[1]), Lower(probe.query))

\* ------------------------------------------------------------ snippet on its own
\* extract_search_snippet applied to a text and a needle with the default
\* radius.
\* Some x or some capital I with a dot above, a space, "ab", "AB c" or "zz",
\* and then nothing or a space and a hundred y.
PadLengths == {0, 1, DEFAULT_RADIUS - 1, DEFAULT_RADIUS, DEFAULT_RADIUS + 1, MaxPad}
SnippetTexts ==
    {Repeat(ch, k) \o <<32>> \o core \o tail :
        ch \in {120, 304}, k \in PadLengths,
        core \in {<<97, 98>>, <<65, 66, 32, 99>>, <<122, 122>>},
        tail \in {<<>>, <<32>> \o Repeat(121, 100)}}

\* "ab", "b c" and "zz": lowercase, whitespace normalised, as
\* _compute_ranked_match passes the needle.
SnippetNeedles == {<<97, 98>>, <<98, 32, 99>>, <<122, 122>>}

SnippetProbes ==
    {[fn |-> "extract_search_snippet", text |-> t, needle_lower |-> n,
      done |-> FALSE, out |-> None] :
        t \in SnippetTexts, n \in SnippetNeedles}

InitSnippet == InitProgram /\ probe \in SnippetProbes

ApplyExtractSnippet ==
    /\ probe.fn = "extract_search_snippet"
    /\ ~probe.done
    /\ probe' = [probe EXCEPT !.done = TRUE,
                              !.out = extract_search_snippet(probe.text,
                                                             probe.needle_lower,
                                                             DEFAULT_RADIUS)]
    /\ UNCHANGED <<globals, locks, lifecycle, locals, env, history, watch>>

NextSnippet == ApplyExtractSnippet

SpecSnippet == InitSnippet /\ [][NextSnippet]_vars

\* C19: for a text that contains the lowercase needle case-insensitively, the
\* snippet is not None and contains the needle case-insensitively.
C19_SnippetContainsNeedle ==
    ( /\ probe.fn = "extract_search_snippet"
      /\ probe.done
      /\ Occurs(Lower(probe.text), probe.needle_lower) ) =>
        /\ probe.out # None
        /\ Occurs(Lower(probe.out[1]), probe.needle_lower)

\* ------------------------------------------------------------ per-file faults
\* The refresh of handler t has left its per-file loop and not yet returned.
PastBuild(t) == pc[t] \in {"finalize", "fin_update", "fin_meta", "return"}

\* In the running refresh of handler t, file p is taken over from the previous
\* index on its unchanged mtime and size, or on its unchanged hash.
SameStat(t, p) ==
    /\ req[t].mode = "incremental"
    /\ p \in DOMAIN frame[t].previous
    /\ frame[t].previous[p].mtimeNs = files[p].mtime
    /\ frame[t].previous[p].sizeBytes = files[p].size

SameHash(t, p) ==
    /\ req[t].mode = "incremental"
    /\ p \in DOMAIN frame[t].previous
    /\ frame[t].previous[p].contentHash = <<"sha256", files[p].data>>

\* The step of the per-file loop that failed on p with an I/O error, "none" if
\* no step did: stat is always made, the hash is computed unless mtime and
\* size are unchanged, the text is extracted unless the hash is unchanged too.
FailedStep(t, p) ==
    IF watch.faults[p] = "stat" THEN "stat"
    ELSE IF watch.faults[p] = "hash" /\ ~SameStat(t, p) THEN "hash"
    ELSE IF watch.faults[p] = "extract" /\ ~SameStat(t, p) /\ ~SameHash(t, p)
    THEN "extract"
    ELSE "none"

FailureDiagnostic(step, p) ==
    IF step = "stat" THEN <<"file-stat-failed", p>>
    ELSE IF step = "hash" THEN <<"file-hash-failed", p>>
    ELSE <<"file-extract-failed", p>>

ScannedPaths(t) == {frame[t].scanned[i] : i \in DOMAIN frame[t].scanned}

FailedPaths(t) == {p \in ScannedPaths(t) : FailedStep(t, p) # "none"}

\* C11: when stat, hash or extraction of a scanned file fails with an I/O
\* error, the file is left out of the new index, failedFiles counts it, its
\* diagnostic is in the summary, every other scanned file is in the new
\* index, and the refresh goes on to swap the new index in; /reindex then
\* answers 200 with status "degraded".
C11_PerFileFaultsRecovered ==
    LET t == "h1"
    IN  /\ PastBuild(t) =>
            /\ \A p \in FailedPaths(t) :
                   /\ p \notin DOMAIN frame[t].updated
                   /\ \E i \in DOMAIN frame[t].summary.diagnostics :
                          frame[t].summary.diagnostics[i] =
                              FailureDiagnostic(FailedStep(t, p), p)
            /\ \A p \in ScannedPaths(t) \ FailedPaths(t) :
                   p \in DOMAIN frame[t].updated
            /\ frame[t].summary.failedFiles = Cardinality(FailedPaths(t))
            /\ frame[t].summary.status = "ok"
            /\ pc[t] = "return" => index_by_path = frame[t].updated
        /\ ( /\ pc[t] = "done"
             /\ req[t].kind = "reindex"
             /\ outcome[t].raised = "none"
             /\ outcome[t].summary # EmptyDict ) =>
               /\ resp[t].status = 200
               /\ resp[t].body.status =
                      (IF outcome[t].summary.failedFiles > 0 THEN "degraded" ELSE "ok")
               /\ \A p \in Paths :
                      (watch.faults[p] = "stat" /\ watch.seen.files[p].exists) =>
                          /\ p \notin DOMAIN index_by_path
                          /\ resp[t].body.status = "degraded"
                          /\ resp[t].body.failedFiles = 1

\* A /reindex whose extraction of one file failed, though the previous index
\* held that file, has swapped in an index without it and with the other file.
C11_Witness ==
    LET t == "h1"
    IN  /\ pc[t] = "return"
        /\ req[t].kind = "reindex"
        /\ \E p \in FailedPaths(t) :
               /\ FailedStep(t, p) = "extract"
               /\ p \in DOMAIN frame[t].previous
               /\ p \notin DOMAIN index_by_path
               /\ DOMAIN index_by_path = ScannedPaths(t) \ {p}
               /\ index_by_path # EmptyMap

\* ------------------------------------------------------------ reuse
\* Handler t is between the per-file loop and the swap of an incremental
\* refresh that follows a completed incremental refresh, and the scans of the
\* two found the same files with the same bytes and times.
SecondIncremental(t) ==
    /\ pc[t] \in {"finalize", "fin_update", "fin_meta"}
    /\ req[t].mode = "incremental"
    /\ last_indexed_at > 0
    /\ last_refresh_mode = "incremental"
    /\ watch.seen = watch.swap_seen

AllReused(t) ==
    /\ frame[t].summary.updatedFiles = 0
    /\ frame[t].summary.reusedFiles = frame[t].summary.indexedFiles

SecondFull(t) ==
    /\ pc[t] = "fin_meta"
    /\ req[t].kind = "reindex"
    /\ req[t].mode = "full"
    /\ last_indexed_at > 0
    /\ last_refresh_mode = "full"
    /\ watch.seen = watch.swap_seen

\* The index has the keys of the index this refresh found, with the same
\* contentHash for each.
SameSnapshot(t) ==
    /\ DOMAIN index_by_path = DOMAIN frame[t].previous
    /\ \A k \in DOMAIN index_by_path :
           index_by_path[k].contentHash = frame[t].previous[k].contentHash

TakesSearch(t) ==
    /\ Free(t)
    /\ nreq' = nreq + 1
    /\ req'[t].kind = "search"

\* The query as it came in has fewer than two characters once trimmed.
TooShort(raw_query) ==
    LET first == {i \in DOMAIN raw_query : ~IsSpace(raw_query[i])}
    IN  \/ first = {}
        \/ \A i, j \in first : i = j

\* C20: a /search whose query, trimmed, is empty or one character long is
\* answered 400 INVALID_QUERY in the step that takes it, with no lock taken
\* and the index and the refresh metadata unchanged; a /search with a longer
\* query goes on to the refresh and is answered 200.
C20_QueryValidationFailsFast ==
    [][ LET t == "h1"
        IN  /\ (TakesSearch(t) /\ TooShort(watch'.raw_query)) =>
                   /\ pc'[t] = "done"
                   /\ resp'[t] = [status |-> 400, errorCode |-> "INVALID_QUERY"]
                   /\ UNCHANGED <<globals, locks>>
            /\ (TakesSearch(t) /\ ~TooShort(watch'.raw_query)) =>
                   pc'[t] = "refresh_lock"
            /\ ( /\ req[t].kind = "search"
                 /\ pc[t] # "done"
                 /\ pc'[t] = "done" ) =>
                   /\ ~TooShort(watch.raw_query)
                   /\ resp'[t].status = 200 ]_vars

\* The query of two spaces is answered 400 over an index of two files, and
\* no lock is held.
C20_Witness ==
    /\ pc["h1"] = "done"
    /\ req["h1"].kind = "search"
    /\ watch.raw_query = <<32, 32>>
    /\ resp["h1"].status = 400
    /\ Size(index_by_path) = 2
    /\ refresh_lock = NoThread
    /\ index_lock = NoThread

\* ------------------------------------------------------------ result limit
\* One handler that answers /search calls with any limit, one at a time, over
\* the two files of the workspace.
\* No limit, -3, 0, 1, 2, 100 and 101.
LimitValues == {<<>>, <<-3>>, <<0>>, <<1>>, <<2>>, <<100>>, <<101>>}

NextLimit ==
    \/ Free("h1") /\ Tick /\ UNCHANGED observers
    \/ \E q \in RawQueries, l \in LimitValues : SeqStartSearch("h1", q, l)
    \/ AcquireRefreshLock("h1") /\ UNCHANGED observers
    \/ Snapshot("h1") /\ UNCHANGED observers
    \/ SkipReturn("h1") /\ UNCHANGED observers
    \/ RootFound("h1") /\ UNCHANGED observers
    \/ SeqScan("h1")
    \/ SeqBuild("h1", NoFaults)
    \/ FinalizeClear("h1") /\ UNCHANGED observers
    \/ FinalizeUpdate("h1") /\ UNCHANGED observers
    \/ SeqFinalizeMeta("h1")
    \/ ReturnSummary("h1") /\ UNCHANGED observers
    \/ SearchIndex("h1") /\ UNCHANGED observers

SpecLimit == Init /\ [][NextLimit]_vars

\* The limit the claim names for a request: 40 without one, else the integer
\* brought into 1..100.
EffectiveLimit(raw_limit) ==
    IF raw_limit = None THEN 40
    ELSE IF raw_limit[1] < 1 THEN 1
    ELSE IF raw_limit[1] > 100 THEN 100
    ELSE raw_limit[1]

\* C21: the limit a /search with a valid query works with is 40 when none is
\* given and otherwise the requested integer clamped into [1, 100]; its
\* response holds at most that many results, and total is their number.
C21_LimitClamped ==
    LET t == "h1"
    IN  (req[t].kind = "search" /\ ~TooShort(watch.raw_query)) =>
            /\ req[t].limit = EffectiveLimit(watch.raw_limit)
            /\ req[t].limit >= 1 /\ req[t].limit <= 100
            /\ Answered(t) =>
                   /\ Len(resp[t].body.results) <= req[t].limit
                   /\ resp[t].body.total = Len(resp[t].body.results)

\* A search with limit 0 over an index whose two records both match is
\* answered with one result.
C21_Witness ==
    LET t == "h1"
    IN  /\ Answered(t)
        /\ watch.raw_limit = <<0>>
        /\ Size(docs[t]) = 2
        /\ Len(_search_index(docs[t], req[t].query, MAX_LIMIT)) = 2
        /\ resp[t].body.total = 1

\* ------------------------------------------------------------ worker lifecycle
\* The server's startup and shutdown events and the background worker, over
\* a workspace root that may go away and come back; no request is handled.
CallStart ==
    /\ watch.calls < MaxCalls
    /\ StartBackgroundSync
    /\ watch' = [watch EXCEPT !.calls = @ + 1, !.call = "start"]
    /\ UNCHANGED probe

CallStop ==
    /\ watch.calls < MaxCalls
    /\ StopBackgroundSync
    /\ watch' = [watch EXCEPT !.calls = @ + 1, !.call = "stop",
                              !.stop_at = IF background_thread = "None" THEN "none"
                                          ELSE pc[background_thread]]
    /\ UNCHANGED probe

\* A step of worker thread w.
WorkerRuns(w) ==
    /\ \/ WorkerTick(w)
       \/ WorkerStops(w)
       \/ AcquireRefreshLock(w)
       \/ Snapshot(w)
       \/ RootFound(w)
       \/ RootMissing(w)
       \/ Scan(w)
       \/ \E faults \in {NoFaults, CrashFaults} : Build(w, faults)
       \/ FinalizeClear(w)
       \/ FinalizeUpdate(w)
       \/ FinalizeMeta(w)
       \/ ReturnSummary(w)
    /\ UNCHANGED observers

NextWorker ==
    \/ Tick /\ UNCHANGED observers
    \/ RemoveRoot /\ UNCHANGED observers
    \/ RestoreRoot /\ UNCHANGED observers
    \/ CallStart
    \/ CallStop
    \/ \E w \in Workers : WorkerTick(w) /\ UNCHANGED observers
    \/ \E w \in Workers : WorkerStops(w) /\ UNCHANGED observers
    \/ \E w \in Workers : AcquireRefreshLock(w) /\ UNCHANGED observers
    \/ \E w \in Workers : Snapshot(w) /\ UNCHANGED observers
    \/ \E w \in Workers : RootFound(w) /\ UNCHANGED observers
    \/ \E w \in Workers : RootMissing(w) /\ UNCHANGED observers
    \/ \E w \in Workers : Scan(w) /\ UNCHANGED observers
    \/ \E w \in Workers, faults \in {NoFaults, CrashFaults} :
           Build(w, faults) /\ UNCHANGED observers
    \/ \E w \in Workers : FinalizeClear(w) /\ UNCHANGED observers
    \/ \E w \in Workers : FinalizeUpdate(w) /\ UNCHANGED observers
    \/ \E w \in Workers : FinalizeMeta(w) /\ UNCHANGED observers
    \/ \E w \in Workers : ReturnSummary(w) /\ UNCHANGED observers

SpecWorker == Init /\ [][NextWorker]_vars

\* A worker thread that can take a step takes one in the end: the operating
\* system schedules every thread that is able to run.
SpecWorkerFair ==
    Init /\ [][NextWorker]_vars /\ \A w \in Workers : WF_vars(WorkerRuns(w))

\* The positions of a thread between acquiring and releasing the refresh lock.
RefreshPositions ==
    {"snapshot", "decide", "scan", "build", "finalize", "fin_update", "fin_meta",
     "return"}

\* C22: at most one background worker thread is alive at any time, whatever
\* the order of startup and shutdown events and of the worker's steps; and a
\* startup event that comes while a worker is alive creates no thread and
\* changes nothing.
C22_OneWorker ==
    /\ [](Cardinality({w \in Workers : IsAlive(w)}) <= 1)
    /\ [][ ( /\ watch'.calls # watch.calls
             /\ watch'.call = "start"
             /\ \E w \in Workers : IsAlive(w) ) =>
               UNCHANGED <<globals, locks, lifecycle, locals>> ]_vars

\* A startup event came after a shutdown event while the worker was scanning:
\* the stop event is still set and the worker is still the only one.
C22_Witness ==
    /\ watch.call = "start"
    /\ watch.calls = 3
    /\ watch.stop_at = "scan"
    /\ background_stop
    /\ pc[Worker] = "build"
    /\ pc["bg2"] = "off"

\* C23: a background refresh that raises (missing root, unexpected error)
\* leaves the worker in its loop, waiting for the next interval; a worker ends
\* only from its wait and only when the stop event is set; and a waiting
\* worker whose interval is over, with the stop event not set, goes on to an
\* incremental refresh.
C23_WorkerSurvivesFailure ==
    [][ \A w \in Workers :
          /\ (pc[w] \in RefreshPositions /\ pc'[w] \notin RefreshPositions) =>
                 /\ pc'[w] = "wait"
                 /\ bg_deadline'[w] = clock + _background_sync_seconds
          /\ (IsAlive(w) /\ pc'[w] = "exited") =>
                 pc[w] = "wait" /\ background_stop
          /\ (pc[w] = "wait" /\ pc'[w] # "wait" /\ ~background_stop) =>
                 /\ clock >= bg_deadline[w]
                 /\ pc'[w] = "refresh_lock"
                 /\ req'[w].mode = "incremental"
          /\ ( /\ pc[w] = "wait" /\ ~background_stop
               /\ clock >= bg_deadline[w] /\ nreq < MaxRequests ) =>
                 ENABLED WorkerTick(w) ]_vars

\* The worker scans again after its first refresh found the root missing.
C23_Witness ==
    \E w \in Workers :
        /\ pc[w] = "scan"
        /\ nreq = 2
        /\ last_refresh_error = RootNotFoundMessage
        /\ last_indexed_at = 0
        /\ ~background_stop

\* C24: once the stop event is set, a waiting worker can end at once and its
\* next step ends it, with no refresh; a worker inside a refresh (from the
\* timeout of its wait to the return of _refresh_index) is not ended there;
\* no worker goes from its wait into a refresh; and every worker that is
\* alive ends.
C24_StopEndsWorker ==
    /\ [](\A w \in Workers :
             (background_stop /\ pc[w] = "wait") => ENABLED WorkerStops(w))
    /\ [][ background_stop =>
             \A w \in Workers :
                 /\ (pc[w] = "wait" /\ pc'[w] # "wait") =>
                        pc'[w] = "exited" /\ nreq' = nreq
                 /\ (pc[w] \in RefreshPositions \cup {"refresh_lock"}) =>
                        pc'[w] \in RefreshPositions \cup {"refresh_lock", "wait"} ]_vars
    /\ \A w \in Workers : (background_stop /\ IsAlive(w)) ~> ~IsAlive(w)

\* The shutdown event came while the worker was scanning; the worker has put
\* the index of that refresh in place and then ended.
C24_Witness ==
    /\ watch.stop_at = "scan"
    /\ background_stop
    /\ pc[Worker] = "exited"
    /\ nreq = 1
    /\ Size(index_by_path) = 2
    /\ last_refresh_summary # EmptyDict
    /\ last_refresh_summary.status = "ok"

\* ------------------------------------------------------------ scan budgets
\* _scan_workspace_files taken one iteration of its loops at a time, over
\* workspaces larger than its budgets, and the refresh that follows the scan.
\* A workspace is given by its shape: root_files office files in the root and
\* dirs directories with per_dir office files each, the directories all in
\* the root, or (nested) each inside the one before.  Directory 0 is the
\* root; directory d is named "d" and three digits, a file "f", four digits
\* and ".docx", so that in a listing the directories come first.
Shape(root_files, dirs, per_dir, nested) ==
    [root_files |-> root_files, dirs |-> dirs, per_dir |-> per_dir,
     nested |-> nested]

\* 2,500 files in the root; 2,000 files in the root beside a directory with
\* one; a chain of 450 directories; 450 directories of 5 files; 400
\* directories of 6 files; and a file in the root beside two directories with
\* one each.
ScanShapes ==
    {Shape(2500, 0, 0, FALSE),
     Shape(2000, 1, 1, FALSE),
     Shape(0, 450, 0, TRUE),
     Shape(0, 450, 5, FALSE),
     Shape(0, 400, 6, FALSE),
     Shape(1, 2, 1, FALSE)}

\* sorted(directory.iterdir(), key=name.lower()): the subdirectories, then the
\* files, each by its number.
Listing(shape, d) ==
    LET subs == IF shape.nested
                THEN (IF d < shape.dirs THEN <<d + 1>> ELSE <<>>)
                ELSE (IF d = 0 THEN [i \in 1..shape.dirs |-> i] ELSE <<>>)
        count == IF d = 0 THEN shape.root_files ELSE shape.per_dir
    IN  [i \in 1..Len(subs) |-> [is_dir |-> TRUE, path |-> <<subs[i], 0>>]]
        \o [k \in 1..count |-> [is_dir |-> FALSE, path |-> <<d, k>>]]

Digit(n, place) == 48 + ((n \div place) % 10)

\* _relative_file_path of file number path[2] of directory number path[1], in
\* a workspace whose directories are all in the root: "f0001.docx",
\* "d001/f0001.docx".
ShapePath(path) ==
    (IF path[1] = 0 THEN <<>>
     ELSE <<100, Digit(path[1], 100), Digit(path[1], 10), Digit(path[1], 1), 47>>)
    \o <<102, Digit(path[2], 1000), Digit(path[2], 100), Digit(path[2], 10),
          Digit(path[2], 1), 46, 100, 111, 99, 120>>

\* A scan about to start: the root in the queue, no directory read yet
\* (reads counts the calls of iterdir).
ScanProbes ==
    {[fn |-> "scan", shape |-> sh, phase |-> "while", queue |-> <<0>>,
      visited |-> {}, candidates |-> <<>>, directory |-> 0, at |-> 0,
      reads |-> 0] :
        sh \in ScanShapes}

InitScan == InitProgram /\ probe \in ScanProbes

\* One pass of the while loop up to its for loop: the next directory leaves
\* the queue, is marked visited and listed.
ScanDirectory ==
    /\ probe.fn = "scan"
    /\ probe.phase = "while"
    /\ ScanGoesOn(probe.queue, probe.visited, probe.candidates)
    /\ LET directory == Head(probe.queue)
           entries == Listing(probe.shape, directory)
       IN  probe' = IF directory \in probe.visited
                    THEN [probe EXCEPT !.queue = Tail(@)]
                    ELSE [probe EXCEPT !.queue = Tail(@),
                                       !.visited = @ \cup {directory},
                                       !.directory = directory,
                                       !.reads = @ + 1,
                                       !.at = 1,
                                       !.phase = IF entries = <<>> THEN "while"
                                                 ELSE "for"]
    /\ UNCHANGED <<globals, locks, lifecycle, locals, env, history, watch>>

\* One pass of the for loop: a directory goes to the queue, a file to the
\* candidates, and the loop breaks when the candidates are full.
ScanEntry ==
    /\ probe.fn = "scan"
    /\ probe.phase = "for"
    /\ LET entries == Listing(probe.shape, probe.directory)
           entry == entries[probe.at]
           last == probe.at = Len(entries)
       IN  probe' =
               IF entry.is_dir
               THEN [probe EXCEPT !.queue = Append(@, entry.path[1]),
                                  !.at = @ + 1,
                                  !.phase = IF last THEN "while" ELSE "for"]
               ELSE [probe EXCEPT !.candidates = Append(@, entry.path),
                                  !.at = @ + 1,
                                  !.phase =
                                      IF Len(probe.candidates) + 1 >= MAX_INDEXED_FILES
                                      THEN "while"
                                      ELSE IF last THEN "while" ELSE "for"]
    /\ UNCHANGED <<globals, locks, lifecycle, locals, env, history, watch>>

\* The while loop ends and _scan_workspace_files returns; the full refresh
\* that called it goes through its per-file loop and puts the new index in
\* place.
ScanReturnAndRefresh ==
    /\ probe.fn = "scan"
    /\ probe.phase = "while"
    /\ ~ScanGoesOn(probe.queue, probe.visited, probe.candidates)
    /\ LET scanned == [i \in DOMAIN probe.candidates |-> ShapePath(probe.candidates[i])]
           keys == {scanned[i] : i \in DOMAIN scanned}
           acc == BuildIndex(NoAcc, scanned, index_by_path, "full", TRUE,
                             [k \in keys |-> File(0, 1)], [k \in keys |-> "none"])
       IN  /\ index_by_path' = acc.updated
           /\ last_refresh_summary' = OkSummary("full", index_by_path, scanned, acc)
    /\ last_indexed_at' = clock
    /\ last_refresh_mode' = "full"
    /\ last_refresh_error' = "None"
    /\ probe' = [probe EXCEPT !.phase = "returned"]
    /\ UNCHANGED <<locks, lifecycle, locals, env, history, watch>>

NextScan ==
    \/ ScanDirectory
    \/ ScanEntry
    \/ ScanReturnAndRefresh

SpecScan == InitScan /\ [][NextScan]_vars

\* C25: at every point of a scan at most 400 directories have been read and
\* at most 2,000 candidates collected; every step of a scan reads one more
\* directory, moves on in a listing, takes a directory off the queue or
\* returns, so the scan ends; and the refresh that follows has scannedFiles
\* and indexedFiles of at most 2,000 and leaves at most 2,000 records in the
\* index.
C25_ScanBudgets ==
    /\ [](probe.fn = "scan" =>
            /\ probe.reads <= 400
            /\ Cardinality(probe.visited) <= 400
            /\ Len(probe.candidates) <= 2000
            /\ probe.phase = "for" =>
                   probe.at \in DOMAIN Listing(probe.shape, probe.directory)
            /\ Size(index_by_path) <= 2000
            /\ probe.phase = "returned" =>
                   /\ last_refresh_summary.scannedFiles = Len(probe.candidates)
                   /\ last_refresh_summary.scannedFiles <= 2000
                   /\ last_refresh_summary.indexedFiles <= 2000
                   /\ last_refresh_summary.indexedFiles = Size(index_by_path))
    /\ [][ probe.fn = "scan" =>
             \/ probe'.reads = probe.reads + 1
             \/ probe'.phase = "for" /\ probe'.at = probe.at + 1
             \/ probe'.phase = "while" /\ Len(probe'.queue) < Len(probe.queue)
             \/ probe'.phase = "while" /\ probe.phase = "for"
             \/ probe'.phase = "returned" /\ probe.phase = "while" ]_vars

\* The full refresh of a workspace with 2,500 files in its root has scanned
\* and indexed 2,000 of them.
C25_Witness ==
    /\ probe.fn = "scan"
    /\ probe.phase = "returned"
    /\ probe.shape.root_files = 2500
    /\ last_refresh_summary.scannedFiles = 2000
    /\ last_refresh_summary.indexedFiles = 2000
    /\ Size(index_by_path) = 2000

\* ------------------------------------------------------------ diagnostics
\* The refresh of a /search taken one iteration of its loops at a time, over
\* a workspace with many unreadable directories and many files that fail,
\* and then the diagnostics of the response.  The root of the workspace
\* holds the directories "d01", "d02", ..., none of which can be listed, and
\* the files "f01.docx", "f02.docx", ..., of which all but the last meet the
\* same I/O fault.  Directory 0 is the root.
DirName(i) == <<100, Digit(i, 10), Digit(i, 1)>>
FileName(k) == <<102, Digit(k, 10), Digit(k, 1), 46, 100, 111, 99, 120>>

\* Numbers of unreadable directories and of failing files.
DiagCases ==
    {<<0, 0>>, <<1, 0>>, <<0, 1>>, <<2, 2>>, <<30, 30>>, <<0, 52>>, <<52, 0>>,
     <<49, 1>>, <<50, 1>>, <<49, 0>>, <<0, 50>>, <<51, 3>>}

DiagProbes ==
    {[fn |-> "diagnostics", dirs |-> c[1], failing |-> c[2], kind |-> k,
      phase |-> "while", queue |-> <<0>>, visited |-> {},
      scan_diagnostics |-> <<>>, candidates |-> <<>>, at |-> 0, acc |-> NoAcc,
      summary |-> EmptyDict, diagnostics |-> <<>>] :
        c \in DiagCases, k \in {"stat", "hash", "extract"}}

InitDiag == InitProgram /\ probe \in DiagProbes

\* One pass of the while loop of _scan_workspace_files: the root is listed,
\* its directories go to the queue and its files to the candidates; any
\* other directory raises OSError and leaves a diagnostic.
DiagScanDirectory ==
    /\ probe.fn = "diagnostics"
    /\ probe.phase = "while"
    /\ ScanGoesOn(probe.queue, probe.visited, probe.candidates)
    /\ LET directory == Head(probe.queue)
       IN  probe' =
               IF directory \in probe.visited
               THEN [probe EXCEPT !.queue = Tail(@)]
               ELSE IF directory = 0
               THEN [probe EXCEPT
                        !.queue = Tail(@) \o [i \in 1..probe.dirs |-> i],
                        !.visited = @ \cup {directory},
                        !.candidates = [k \in 1..(probe.failing + 1) |-> FileName(k)]]
               ELSE [probe EXCEPT
                        !.queue = Tail(@),
                        !.visited = @ \cup {directory},
                        !.scan_diagnostics =
                            _append_diagnostic(@, <<"directory-unreadable",
                                                    DirName(directory)>>)]
    /\ UNCHANGED <<globals, locks, lifecycle, locals, env, history, watch>>

\* _scan_workspace_files returns and _refresh_index copies its diagnostics.
DiagScanReturns ==
    /\ probe.fn = "diagnostics"
    /\ probe.phase = "while"
    /\ ~ScanGoesOn(probe.queue, probe.visited, probe.candidates)
    /\ probe' = [probe EXCEPT
                    !.phase = "files",
                    !.at = 1,
                    !.acc = [NoAcc EXCEPT !.diagnostics =
                                AppendAll(<<>>, probe.scan_diagnostics)]]
    /\ UNCHANGED <<globals, locks, lifecycle, locals, env, history, watch>>

\* One pass of the per-file loop of an incremental refresh over an empty
\* index.
DiagProcessFile ==
    /\ probe.fn = "diagnostics"
    /\ probe.phase = "files"
    /\ probe.at <= Len(probe.candidates)
    /\ LET p == probe.candidates[probe.at]
       IN  probe' = [probe EXCEPT
                        !.at = @ + 1,
                        !.acc = ProcessFile(@, p, EmptyMap, "incremental", TRUE,
                                            (p :> File(0, 1)),
                                            IF probe.at <= probe.failing
                                            THEN probe.kind ELSE "none")]
    /\ UNCHANGED <<globals, locks, lifecycle, locals, env, history, watch>>

\* The per-file loop has ended: the summary of the refresh.
DiagSummary ==
    /\ probe.fn = "diagnostics"
    /\ probe.phase = "files"
    /\ probe.at > Len(probe.candidates)
    /\ probe' = [probe EXCEPT
                    !.phase = "refreshed",
                    !.summary = OkSummary("incremental", EmptyMap,
                                          probe.candidates, probe.acc)]
    /\ UNCHANGED <<globals, locks, lifecycle, locals, env, history, watch>>

\* search, after the refresh has returned: the diagnostics of the response.
DiagRespond ==
    /\ probe.fn = "diagnostics"
    /\ probe.phase = "refreshed"
    /\ probe' = [probe EXCEPT
                    !.phase = "responded",
                    !.diagnostics = SearchDiagnostics([raised |-> "none",
                                                       summary |-> probe.summary])]
    /\ UNCHANGED <<globals, locks, lifecycle, locals, env, history, watch>>

NextDiag ==
    \/ DiagScanDirectory
    \/ DiagScanReturns
    \/ DiagProcessFile
    \/ DiagSummary
    \/ DiagRespond

SpecDiag == InitDiag /\ [][NextDiag]_vars

\* Every diagnostic the refresh comes to, in the order of its processing: the
\* unreadable directories as the scan meets them, then the failing files.
Produced ==
    [i \in 1..probe.dirs |-> <<"directory-unreadable", DirName(i)>>]
    \o [k \in 1..probe.failing |-> FailureDiagnostic(probe.kind, FileName(k))]

\* C26 as stated: the diagnostics of the refresh summary and those of the
\* /search response are the first 50 of the diagnostics produced.
C26_FirstFiftyEverywhere ==
    /\ probe.fn = "diagnostics" /\ probe.phase \in {"refreshed", "responded"} =>
           probe.summary.diagnostics = Prefix(Produced, 50)
    /\ probe.fn = "diagnostics" /\ probe.phase = "responded" =>
           probe.diagnostics = Prefix(Produced, 50)

\* C26, amended: the diagnostics of a refresh summary are the first 50 of the
\* diagnostics produced, in processing order, and the refresh ends "ok" with
\* every failing file counted; the diagnostics of the /search response are
\* those of the summary when failedFiles > 0 and none otherwise; neither list
\* has more than 50 entries.
C26_FirstFiftyOfSummary ==
    /\ probe.fn = "diagnostics" =>
           /\ Len(probe.scan_diagnostics) <= 50
           /\ Len(probe.acc.diagnostics) <= 50
    /\ probe.fn = "diagnostics" /\ probe.phase \in {"refreshed", "responded"} =>
           /\ probe.summary.diagnostics = Prefix(Produced, 50)
           /\ Len(probe.summary.diagnostics) <= 50
           /\ probe.summary.status = "ok"
           /\ probe.summary.failedFiles = probe.failing
           /\ probe.summary.indexedFiles = 1
    /\ probe.fn = "diagnostics" /\ probe.phase = "responded" =>
           /\ probe.diagnostics = IF probe.summary.failedFiles > 0
                                   THEN probe.summary.diagnostics
                                   ELSE <<>>
           /\ Len(probe.diagnostics) <= 50

\* A search whose refresh met 30 unreadable directories and 30 failing files
\* carries 50 diagnostics, the 30th about a directory and the 31st about a
\* file.
C26_Witness ==
    /\ probe.fn = "diagnostics"
    /\ probe.phase = "responded"
    /\ probe.dirs = 30
    /\ probe.failing = 30
    /\ Len(probe.diagnostics) = 50
    /\ probe.diagnostics[30][1] = "directory-unreadable"
    /\ probe.diagnostics[31][1] # "directory-unreadable"
    /\ probe.summary.failedFiles = 30

\* ------------------------------------------------------------ index store
\* Two handlers and no background worker: searches, reindex calls and health
\* calls side by side, over a workspace whose "a.docx" is rewritten and
\* whose root goes away and comes back at any moment.
NextStore ==
    \/ Tick /\ UNCHANGED observers
    \/ \E d \in DataValues :
           /\ files[PathA].mtime < MaxWrites
           /\ WriteFile(PathA, d)
           /\ UNCHANGED observers
    \/ RemoveRoot /\ UNCHANGED observers
    \/ RestoreRoot /\ UNCHANGED observers
    \/ \E t \in Handlers : StartSearch(t, <<32, 97, 98>>, <<>>) /\ UNCHANGED observers
    \/ \E t \in Handlers, m \in {"", "incremental"} :
           StartReindex(t, m) /\ UNCHANGED observers
    \/ \E t \in Handlers : Health(t) /\ UNCHANGED observers
    \/ \E t \in Handlers : AcquireRefreshLock(t) /\ UNCHANGED observers
    \/ \E t \in Handlers : Snapshot(t) /\ UNCHANGED observers
    \/ \E t \in Handlers : SkipReturn(t) /\ UNCHANGED observers
    \/ \E t \in Handlers : RootFound(t) /\ UNCHANGED observers
    \/ \E t \in Handlers : RootMissing(t) /\ UNCHANGED observers
    \/ \E t \in Handlers : Scan(t) /\ UNCHANGED observers
    \/ \E t \in Handlers, faults \in {NoFaults, CrashFaults} :
           Build(t, faults) /\ UNCHANGED observers
    \/ \E t \in Handlers : FinalizeClear(t) /\ UNCHANGED observers
    \/ \E t \in Handlers : FinalizeUpdate(t) /\ UNCHANGED observers
    \/ \E t \in Handlers : FinalizeMeta(t) /\ UNCHANGED observers
    \/ \E t \in Handlers : ReturnSummary(t) /\ UNCHANGED observers
    \/ \E t \in Handlers : SearchIndex(t) /\ UNCHANGED observers

SpecStore == Init /\ [][NextStore]_vars

\* The step is taken by thread t inside _finalize_refresh_state, t holding
\* the refresh lock and the index lock.
InSwapStep(t) ==
    /\ pc[t] \in {"finalize", "fin_update", "fin_meta"}
    /\ refresh_lock = t
    /\ index_lock \in {NoThread, t}
    /\ index_lock = t \/ index_lock' = t

\* The step is the root check of thread t failing: under both locks it
\* writes _last_refresh_error and nothing else of the store.
InRootError(t) ==
    /\ pc[t] = "decide"
    /\ refresh_lock = t
    /\ index_lock = NoThread
    /\ ~root_exists
    /\ last_refresh_error' = RootNotFoundMessage
    /\ UNCHANGED <<index_by_path, last_indexed_at, last_refresh_mode,
                   last_refresh_summary>>

\* No record of the index carries the matchKind of a search result.
NoOverlayStored ==
    \A p \in DOMAIN index_by_path :
        "matchKind" \notin DOMAIN index_by_path[p].sourceMeta

\* C27 as stated: the index map and the refresh metadata change only in the
\* swap step of a refresh, whose thread holds the refresh lock and the index
\* lock, and no stored record takes the matchKind of a search result.
C27_OnlySwapModifies ==
    /\ [][globals' # globals => \E t \in Threads : InSwapStep(t)]_vars
    /\ []NoOverlayStored

\* C27, amended: the index map and the refresh metadata change only in the
\* swap step of a refresh and in the root check of a refresh that finds the
\* root missing, which writes lastRefreshError alone; either way the thread
\* holds the refresh lock and the index lock.  So searching, /health, a
\* skipped refresh, the scan and the per-file loop change nothing of them,
\* and no stored record takes the matchKind of a search result.
C27_SwapOrRootErrorModifies ==
    /\ [][globals' # globals =>
             \E t \in Threads : InSwapStep(t) \/ InRootError(t)]_vars
    /\ []NoOverlayStored

\* A search that found the root missing has recorded the error and answered
\* with a result that carries a matchKind, from an index that it left as the
\* last swap had put it in place.
C27_Witness ==
    \E t \in Handlers :
        /\ Answered(t)
        /\ outcome[t].raised = "FileNotFoundError"
        /\ resp[t].body.total > 0
        /\ resp[t].body.results[1].sourceMeta.matchKind # "none"
        /\ last_refresh_error = RootNotFoundMessage
        /\ index_by_path = installed
        /\ index_by_path # EmptyMap

\* Handler t has answered a /health request.
HealthAnswered(t) ==
    /\ pc[t] = "done"
    /\ req[t].kind = "health"
    /\ resp[t].status = 200

\* C28: a refresh that is about to return "ok" has left the index map equal
\* to the map it built, lastRefreshMode equal to its mode, lastRefreshSummary
\* equal to the summary it returns, lastRefreshError null and lastIndexedAt at
\* the wall clock of the write; and every /health response shows an index
\* size, a mode and a summary that belong to the same refresh (or to no
\* refresh at all).
C28_SwapIsAtomic ==
    /\ [](\A t \in Threads :
             pc[t] = "return" =>
                 /\ index_by_path = frame[t].updated
                 /\ last_refresh_mode = req[t].mode
                 /\ last_refresh_summary = frame[t].summary
                 /\ last_refresh_summary.status = "ok"
                 /\ last_refresh_error = "None"
                 /\ last_indexed_at >= frame[t].now
                 /\ last_indexed_at <= clock)
    /\ [][\A t \in Threads :
             pc[t] = "fin_meta" /\ pc'[t] = "return" => last_indexed_at' = clock]_vars
    /\ [](\A t \in Handlers :
             HealthAnswered(t) =>
                 IF resp[t].body.lastRefreshMode = "none"
                 THEN /\ resp[t].body.indexedFiles = 0
                      /\ resp[t].body.lastRefreshSummary = EmptyDict
                      /\ resp[t].body.lastIndexedAt = <<>>
                 ELSE /\ resp[t].body.lastRefreshSummary.status = "ok"
                      /\ resp[t].body.lastRefreshSummary.mode
                             = resp[t].body.lastRefreshMode
                      /\ resp[t].body.lastRefreshSummary.indexedFiles
                             = resp[t].body.indexedFiles
                      /\ resp[t].body.lastIndexedAt # <<>>)

\* While a refresh that has put two records in place is about to return, a
\* /health call has reported just that refresh: its size, mode and summary,
\* and no error.
C28_Witness ==
    \E t, u \in Handlers :
        /\ pc[u] = "return"
        /\ Size(frame[u].updated) = 2
        /\ HealthAnswered(t)
        /\ resp[t].body.indexedFiles = 2
        /\ resp[t].body.lastRefreshMode = req[u].mode
        /\ resp[t].body.lastRefreshSummary = frame[u].summary
        /\ resp[t].body.lastRefreshError = "None"

\* ------------------------------------------------------------ reuse in the per-file loop
\* The previous records that the running incremental refresh of handler t
\* takes over: of the files that can be read, those with the mtime and size
\* of their record, and those with its hash that can be hashed.
ReusedPaths(t) ==
    {p \in DOMAIN frame[t].previous :
        /\ files[p].exists
        /\ watch.faults[p] # "stat"
        /\ \/ SameStat(t, p)
           \/ SameHash(t, p) /\ watch.faults[p] # "hash"}

\* C29: at the end of the per-file loop of an incremental refresh, a file
\* whose previous record has its mtime and size is in the new map with that
\* very record, whether or not hashing or extraction would have failed; a
\* file whose previous record has another mtime or size but its hash is in
\* the new map with the record changed in mtimeNs and sizeBytes only, whether
\* or not extraction would have failed; and reusedFiles counts exactly these
\* files.
C29_IncrementalReuse ==
    pc["h1"] = "finalize" /\ req["h1"].mode = "incremental" =>
        LET previous == frame["h1"].previous
            updated == frame["h1"].updated
        IN  /\ \A p \in ReusedPaths("h1") :
                   /\ p \in DOMAIN updated
                   /\ updated[p].filePath = previous[p].filePath
                   /\ updated[p].title = previous[p].title
                   /\ updated[p].subtitle = previous[p].subtitle
                   /\ updated[p].content = previous[p].content
                   /\ updated[p].sourceMeta = previous[p].sourceMeta
                   /\ updated[p].contentHash = previous[p].contentHash
                   /\ updated[p].mtimeNs = files[p].mtime
                   /\ updated[p].sizeBytes = files[p].size
                   /\ DOMAIN updated[p] = DOMAIN previous[p]
                   /\ SameStat("h1", p) => updated[p] = previous[p]
            /\ frame["h1"].summary.reusedFiles = Cardinality(ReusedPaths("h1"))
            /\ frame["h1"].summary.updatedFiles
                   = Cardinality(DOMAIN updated \ ReusedPaths("h1"))

\* An incremental refresh has taken over the record of "a.docx", rewritten
\* with the same bytes, although its extraction would have failed, and the
\* record of the untouched "ab.docx".
C29_Witness ==
    /\ pc["h1"] = "finalize"
    /\ req["h1"].mode = "incremental"
    /\ ReusedPaths("h1") = {PathA, PathB}
    /\ ~SameStat("h1", PathA)
    /\ SameHash("h1", PathA)
    /\ watch.faults[PathA] = "extract"
    /\ frame["h1"].updated[PathA].mtimeNs # frame["h1"].previous[PathA].mtimeNs
    /\ SameStat("h1", PathB)
    /\ frame["h1"].summary.reusedFiles = 2

\* C30: at the end of the per-file loop of a full refresh, reusedFiles is 0
\* and updatedFiles equals indexedFiles; a scanned file is in the new map
\* exactly if neither stat nor hashing nor extraction failed on it, whatever
\* the previous index holds of it, and its record is made of the file as it
\* is now.
C30_FullNeverReuses ==
    pc["h1"] = "finalize" /\ req["h1"].mode = "full" =>
        LET updated == frame["h1"].updated
            summary == frame["h1"].summary
            scanned == {frame["h1"].scanned[i] : i \in DOMAIN frame["h1"].scanned}
        IN  /\ summary.reusedFiles = 0
            /\ summary.updatedFiles = summary.indexedFiles
            /\ summary.indexedFiles = Size(updated)
            /\ summary.failedFiles = Cardinality(scanned \ DOMAIN updated)
            /\ DOMAIN updated
                   = {p \in scanned :
                         watch.faults[p] \notin {"stat", "hash", "extract"}}
            /\ \A p \in DOMAIN updated :
                   /\ updated[p].contentHash = _compute_file_hash(files[p])
                   /\ updated[p].content = _extract_text_for_file(files[p]).content
                   /\ updated[p].sourceMeta
                          = _extract_text_for_file(files[p]).sourceMeta
                   /\ updated[p].mtimeNs = files[p].mtime
                   /\ updated[p].sizeBytes = files[p].size

\* A full refresh over an index that holds both files as they are has failed
\* to hash "a.docx", left it out, and built the record of "ab.docx" anew.
C30_Witness ==
    /\ pc["h1"] = "finalize"
    /\ req["h1"].mode = "full"
    /\ DOMAIN frame["h1"].previous = {PathA, PathB}
    /\ \A p \in {PathA, PathB} :
           /\ files[p].exists
           /\ frame["h1"].previous[p].mtimeNs = files[p].mtime
           /\ frame["h1"].previous[p].sizeBytes = files[p].size
    /\ watch.faults[PathA] = "hash"
    /\ DOMAIN frame["h1"].updated = {PathB}
    /\ frame["h1"].summary.reusedFiles = 0
    /\ frame["h1"].summary.updatedFiles = 1
    /\ frame["h1"].summary.failedFiles = 1

\* ------------------------------------------------------------ extractor chain
\* _extract_text_for_file with the external extractor configured or not, over
\* files described by what the extractors meet: the size stat() reports, the
\* bytes read_bytes() returns, the ZIP archive the bytes hold, and the answer
\* of the external extractor to the file.
MAX_BINARY_FILE_BYTES == 16000000
MAX_XML_MEMBER_BYTES == 3000000
MAX_EXTRACTED_TEXT_CHARS == 160000

LegacyExtensions == {<<46, 100, 111, 99>>, <<46, 112, 112, 116>>, <<46, 120, 108, 115>>}

\* A call that returns (text, meta), and one that leaves by an exception.
Returned(text, meta) == [raised |-> "none", text |-> text, meta |-> meta]
Raised(exception) == [raised |-> exception, text |-> <<>>, meta |-> EmptyDict]

\* The exception classes the extractors meet that derive from OSError.
OSErrors == {"OSError", "URLError", "HTTPError", "TimeoutError", "ConnectionResetError"}

\* The values json.loads returns: None, a str, a list, a dict.
JNone == [type |-> "NoneType", str |-> <<>>, items |-> <<>>, fields |-> EmptyMap]
JStr(s) == [type |-> "str", str |-> s, items |-> <<>>, fields |-> EmptyMap]
JList(items) == [type |-> "list", str |-> <<>>, items |-> items, fields |-> EmptyMap]
JDict(fields) == [type |-> "dict", str |-> <<>>, items |-> <<>>, fields |-> fields]

\* d.get(key, default) of a dict d.
DictGet(d, key, default) ==
    IF key \in DOMAIN d.fields THEN d.fields[key] ELSE default

\* _opensearch_pipeline_name() with OFFICEINDEX_OPENSEARCH_PIPELINE unset.
_opensearch_pipeline_name == "attachment"

\* " ".join(parts)
RECURSIVE JoinSpace(_)
JoinSpace(parts) ==
    IF parts = <<>> THEN <<>>
    ELSE IF Len(parts) = 1 THEN parts[1]
    ELSE parts[1] \o <<32>> \o JoinSpace(Tail(parts))

\* tag.rsplit("}", 1)[-1]: what follows the last "}" of the tag.
LocalName(tag) ==
    LET braces == {i \in 1..Len(tag) : tag[i] = 125}
        last == IF braces = {} THEN 0 ELSE CHOOSE i \in braces : \A j \in braces : j <= i
    IN  SubSeq(tag, last + 1, Len(tag))

TextTags ==
    {<<116>>, <<118>>, <<112>>, <<97, 58, 116>>, <<105, 115>>, <<115, 105>>}

\* The loop over root.iter() of _extract_text_from_xml.
RECURSIVE XmlChunks(_)
XmlChunks(nodes) ==
    IF nodes = <<>> THEN <<>>
    ELSE LET node == Head(nodes)
             text == Strip(node.text)
             tag_name == Lower(LocalName(node.tag))
         IN  IF text = <<>> THEN XmlChunks(Tail(nodes))
             ELSE IF tag_name \in TextTags \/ Len(text) > 2
             THEN <<text>> \o XmlChunks(Tail(nodes))
             ELSE XmlChunks(Tail(nodes))

\* The text of one XML member: nothing when the member does not parse.
_extract_text_from_xml(xml) ==
    IF ~xml.well_formed THEN <<>>
    ELSE JoinSpace(XmlChunks(xml.nodes))

\* The member prefixes of an extension.
MemberPrefix(extension) ==
    IF extension = <<46, 100, 111, 99, 120>> THEN <<119, 111, 114, 100, 47>>
    ELSE IF extension = <<46, 112, 112, 116, 120>> THEN <<112, 112, 116, 47>>
    ELSE <<120, 108, 47>>

\* The members _extract_ooxml_text considers.
Considered(member, extension) ==
    /\ EndsWith(Lower(member.name), <<46, 120, 109, 108>>)
    /\ StartsWith(Lower(member.name), MemberPrefix(extension))
    /\ member.file_size <= MAX_XML_MEMBER_BYTES

\* The loop over archive.namelist(): the parts collected so far and the
\* exception archive.read() raised, if any.
RECURSIVE OoxmlParts(_, _, _, _)
OoxmlParts(members, extension, parts, char_budget) ==
    IF members = <<>> THEN [raised |-> "none", parts |-> parts]
    ELSE LET member == Head(members)
         IN  IF ~Considered(member, extension)
             THEN OoxmlParts(Tail(members), extension, parts, char_budget)
             ELSE IF member.read # "ok"
             THEN [raised |-> member.read, parts |-> parts]
             ELSE LET xml_text == _extract_text_from_xml(member.xml)
                      parts2 == IF xml_text # <<>> THEN Append(parts, xml_text) ELSE parts
                      budget2 == IF xml_text # <<>> THEN char_budget + Len(xml_text)
                                 ELSE char_budget
                  IN  IF budget2 > MAX_EXTRACTED_TEXT_CHARS
                      THEN [raised |-> "none", parts |-> parts2]
                      ELSE OoxmlParts(Tail(members), extension, parts2, budget2)

\* The exceptions _extract_ooxml_text catches.
OoxmlCaught == {"OSError", "BadZipFile", "KeyError"}

\* _extract_ooxml_text: the text of the archive, "" for an exception it
\* catches, and any other exception of the archive passed on to the caller.
_extract_ooxml_text(file) ==
    LET extension == Lower(Suffix(file.name))
        looped == OoxmlParts(file.archive.members, extension, <<>>, 0)
    IN  IF extension \notin OOXML_EXTENSIONS THEN Returned(<<>>, EmptyDict)
        ELSE IF file.archive.open \in OoxmlCaught THEN Returned(<<>>, EmptyDict)
        ELSE IF file.archive.open # "ok" THEN Raised(file.archive.open)
        ELSE IF looped.raised \in OoxmlCaught THEN Returned(<<>>, EmptyDict)
        ELSE IF looped.raised # "none" THEN Raised(looped.raised)
        ELSE Returned(Prefix(JoinSpace(looped.parts), MAX_EXTRACTED_TEXT_CHARS),
                      EmptyDict)

OpenSearchError(reason) ==
    Returned(<<>>, [extractor |-> "opensearch-error", reason |-> reason])

\* _extract_with_opensearch.  response.raised is the exception urlopen or
\* response.read() raises, response.utf8 whether the body decodes as UTF-8,
\* response.json whether json.loads accepts it, response.decoded its value.
_extract_with_opensearch(file, base_url, response) ==
    IF base_url = <<>> THEN Returned(<<>>, [extractor |-> "opensearch-disabled"])
    ELSE IF ~file.readable THEN OpenSearchError("read-failed")
    ELSE IF file.raw_len > MAX_BINARY_FILE_BYTES
    THEN Returned(<<>>, [extractor |-> "opensearch-skipped", reason |-> "file-too-large"])
    ELSE IF response.raised \in {"HTTPError", "URLError", "TimeoutError"}
    THEN OpenSearchError("request-failed")
    ELSE IF response.raised # "none" THEN Raised(response.raised)
    ELSE IF ~response.utf8 THEN Raised("UnicodeDecodeError")
    ELSE IF ~response.json THEN OpenSearchError("invalid-json")
    ELSE LET decoded == response.decoded
         IN  IF decoded.type # "dict" THEN Raised("AttributeError")
             ELSE LET docs_list == DictGet(decoded, "docs", JNone)
             IN  IF docs_list.type # "list" \/ docs_list.items = <<>>
                 THEN OpenSearchError("missing-docs")
                 ELSE LET first == docs_list.items[1]
                 IN  IF first.type # "dict" THEN OpenSearchError("invalid-doc")
                     ELSE LET doc == DictGet(first, "doc", JDict(EmptyMap))
                     IN  IF doc.type # "dict" THEN Raised("AttributeError")
                         ELSE LET source == DictGet(doc, "_source", JDict(EmptyMap))
                         IN  IF source.type # "dict" THEN Raised("AttributeError")
                             ELSE LET attachment ==
                                          DictGet(source, "attachment", JDict(EmptyMap))
                             IN  IF attachment.type # "dict"
                                 THEN OpenSearchError("missing-attachment")
                                 ELSE LET content == DictGet(attachment, "content", JNone)
                                 IN  IF content.type # "str"
                                     THEN Returned(<<>>, [extractor |-> "opensearch-empty"])
                                     ELSE Returned(
                                              Prefix(content.str, MAX_EXTRACTED_TEXT_CHARS),
                                              [extractor |-> "opensearch",
                                               pipeline |-> _opensearch_pipeline_name])

\* The calls _extract_text_for_file makes to the extractors, in order.
ExtractorCalls(file, base_url, response) ==
    LET extension == Lower(Suffix(file.name))
        external == _extract_with_opensearch(file, base_url, response)
    IN  IF file.st_size > MAX_BINARY_FILE_BYTES THEN <<>>
        ELSE IF external.raised # "none" \/ external.text # <<>> THEN <<"opensearch">>
        ELSE IF extension \in OOXML_EXTENSIONS THEN <<"opensearch", "local-ooxml">>
        ELSE <<"opensearch">>

\* Variant: the local extractor is asked before the external one.
ExtractChain_LocalFirst(file, base_url, response) ==
    LET extension == Lower(Suffix(file.name))
        external == _extract_with_opensearch(file, base_url, response)
        local == _extract_ooxml_text(file)
    IN  IF file.st_size > MAX_BINARY_FILE_BYTES
        THEN Returned(<<>>, [extractor |-> "path-only", reason |-> "file-too-large"])
        ELSE IF extension \in OOXML_EXTENSIONS /\ local.raised # "none" THEN local
        ELSE IF extension \in OOXML_EXTENSIONS /\ local.text # <<>>
        THEN Returned(local.text, [extractor |-> "local-ooxml"])
        ELSE IF external.raised # "none" THEN external
        ELSE IF external.text # <<>> THEN external
        ELSE IF extension \in LegacyExtensions
        THEN Returned(<<>>, [extractor |-> "path-only", reason |-> "legacy-binary"])
        ELSE IF extension = PdfExtension
        THEN Returned(<<>>, [extractor |-> "path-only",
                             reason |-> "pdf-disabled-by-default"])
        ELSE Returned(<<>>, external.meta)

\* _extract_text_for_file: the size gate, the external extractor, the local
\* OOXML extractor, and the path-only answers.
ExtractChain(file, base_url, response) ==
    LET extension == Lower(Suffix(file.name))
        external == _extract_with_opensearch(file, base_url, response)
        local == _extract_ooxml_text(file)
    IN  IF file.st_size > MAX_BINARY_FILE_BYTES
        THEN Returned(<<>>, [extractor |-> "path-only", reason |-> "file-too-large"])
        ELSE IF external.raised # "none" THEN external
        ELSE IF external.text # <<>> THEN external
        ELSE IF extension \in OOXML_EXTENSIONS /\ local.raised # "none" THEN local
        ELSE IF extension \in OOXML_EXTENSIONS /\ local.text # <<>>
        THEN Returned(local.text, [extractor |-> "local-ooxml"])
        ELSE IF extension \in LegacyExtensions
        THEN Returned(<<>>, [extractor |-> "path-only", reason |-> "legacy-binary"])
        ELSE IF extension = PdfExtension
        THEN Returned(<<>>, [extractor |-> "path-only",
                             reason |-> "pdf-disabled-by-default"])
        ELSE Returned(<<>>, external.meta)

\* The end of one pass of the per-file loop of _refresh_index: an OSError of
\* the extraction fails the file, any other exception leaves the loop, and a
\* returned text makes the record of the file.
ProcessExtracted(acc, file, extracted) ==
    IF extracted.raised \in OSErrors
    THEN Failed(acc, "file-extract-failed", file.name)
    ELSE IF extracted.raised # "none"
    THEN [acc EXCEPT !.crashed = TRUE]
    ELSE [acc EXCEPT !.updated = MapPut(@, file.name,
                         [filePath |-> file.name, title |-> BaseName(file.name),
                          subtitle |-> file.name,
                          content |-> extracted.text,
                          sourceMeta |-> extracted.meta,
                          mtimeNs |-> file.mtime, sizeBytes |-> file.st_size,
                          contentHash |-> _compute_file_hash(file)]),
                     !.updated_files = @ + 1]

\* XML members and archives.
Xml(nodes) == [well_formed |-> TRUE, nodes |-> nodes]
BrokenXml == [well_formed |-> FALSE, nodes |-> <<>>]
Node(tag, text) == [tag |-> tag, text |-> text]
Member(name, file_size, read, xml) ==
    [name |-> name, file_size |-> file_size, read |-> read, xml |-> xml]
Archive(members) == [open |-> "ok", members |-> members]
NoArchive(exception) == [open |-> exception, members |-> <<>>]

\* "word/document.xml" with the text " note " in a t element and "hi" in an
\* element that is no text element, and "WORD/Header.XML" with "ab" in a T
\* element and "a" in another.
DocumentXml ==
    Xml(<<Node(<<123, 110, 125, 116>>, <<32, 110, 111, 116, 101, 32>>),
          Node(<<123, 110, 125, 120>>, <<104, 105>>),
          Node(<<120>>, <<>>)>>)
HeaderXml == Xml(<<Node(<<123, 110, 125, 84>>, <<97, 98>>), Node(<<120>>, <<97>>)>>)
DocumentName ==
    <<119, 111, 114, 100, 47, 100, 111, 99, 117, 109, 101, 110, 116, 46, 120, 109, 108>>
HeaderName == <<87, 79, 82, 68, 47, 72, 101, 97, 100, 101, 114, 46, 88, 77, 76>>
AppName == <<100, 111, 99, 80, 114, 111, 112, 115, 47, 97, 112, 112, 46, 120, 109, 108>>
ImageName == <<119, 111, 114, 100, 47, 109, 101, 100, 105, 97, 47, 105, 46, 112, 110, 103>>

\* What a member may be: fine, not well-formed, unreadable in one of three
\* ways, over the size cap, outside the prefix, or no XML by its name.
MemberChoices ==
    {Member(DocumentName, 100, "ok", DocumentXml),
     Member(HeaderName, 100, "ok", HeaderXml),
     Member(DocumentName, 100, "ok", BrokenXml),
     Member(DocumentName, 100, "BadZipFile", DocumentXml),
     Member(DocumentName, 100, "zlib.error", DocumentXml),
     Member(DocumentName, 100, "RuntimeError", DocumentXml),
     Member(DocumentName, MAX_XML_MEMBER_BYTES, "ok", DocumentXml),
     Member(DocumentName, MAX_XML_MEMBER_BYTES + 1, "ok", BrokenXml),
     Member(AppName, 100, "ok", BrokenXml),
     Member(ImageName, 100, "zlib.error", BrokenXml)}

\* The archives: unopenable ones, and those of at most two members.
ArchiveChoices ==
    {NoArchive("BadZipFile"), NoArchive("OSError"), Archive(<<>>)}
    \cup {Archive(<<m>>) : m \in MemberChoices}
    \cup {Archive(<<m, Member(HeaderName, 100, "ok", HeaderXml)>>) : m \in MemberChoices}
    \cup {Archive(<<Member(HeaderName, 100, "ok", HeaderXml), m>>) : m \in MemberChoices}

\* A file as the extractors meet it.
ExtractFile(name, st_size, archive) ==
    [name |-> name, mtime |-> 0, st_size |-> st_size, readable |-> TRUE,
     raw_len |-> st_size, data |-> 1, archive |-> archive]

\* "a.docx" with every archive, and files of the other kinds: another OOXML
\* extension, an extension in capitals, a legacy file, a PDF, files at and
\* over the size gate, a file that grew or became unreadable after stat().
ExtractFiles ==
    {ExtractFile(<<97, 46, 100, 111, 99, 120>>, 1000, a) : a \in ArchiveChoices}
    \cup {ExtractFile(n, 1000, Archive(<<Member(DocumentName, 100, "ok", DocumentXml)>>)) :
             n \in {<<97, 46, 112, 112, 116, 120>>, <<97, 46, 68, 79, 67, 88>>}}
    \cup {ExtractFile(n, 1000, NoArchive("BadZipFile")) :
             n \in {<<97, 46, 100, 111, 99>>, <<97, 46, 112, 100, 102>>}}
    \cup {ExtractFile(<<97, 46, 100, 111, 99, 120>>, s,
                      Archive(<<Member(DocumentName, 100, "ok", DocumentXml)>>)) :
             s \in {MAX_BINARY_FILE_BYTES, MAX_BINARY_FILE_BYTES + 1}}
    \cup {[ExtractFile(<<97, 46, 100, 111, 99, 120>>, MAX_BINARY_FILE_BYTES,
                       Archive(<<Member(DocumentName, 100, "ok", DocumentXml)>>))
              EXCEPT !.raw_len = MAX_BINARY_FILE_BYTES + 1],
          [ExtractFile(<<97, 46, 100, 111, 99, 120>>, 1000,
                       Archive(<<Member(DocumentName, 100, "ok", DocumentXml)>>))
              EXCEPT !.readable = FALSE]}

\* The answers of the external extractor.
Answer(raised, utf8, json, decoded) ==
    [raised |-> raised, utf8 |-> utf8, json |-> json, decoded |-> decoded]
Body(decoded) == Answer("none", TRUE, TRUE, decoded)

\* {"docs": [{"doc": {"_source": {"attachment": attachment}}}]}
SimulateBody(attachment) ==
    Body(JDict("docs" :> JList(<<JDict("doc" :>
             JDict("_source" :> JDict("attachment" :> attachment)))>>)))

\* The request fails (no connection, an HTTP error status, a timeout, a
\* connection reset or cut while the body is read); the body is no UTF-8, no
\* JSON, or JSON of another shape than the pipeline's; or the attachment
\* comes with a text, with an empty text or with none.
Answers ==
    {Answer(e, TRUE, TRUE, JNone) :
        e \in {"URLError", "HTTPError", "TimeoutError", "ConnectionResetError",
               "IncompleteRead"}}
    \cup {Answer("none", FALSE, FALSE, JNone), Answer("none", TRUE, FALSE, JNone)}
    \cup {Body(JList(<<>>)), Body(JDict(EmptyMap)), Body(JDict("docs" :> JList(<<>>))),
          Body(JDict("docs" :> JList(<<JNone>>))),
          Body(JDict("docs" :> JList(<<JDict("doc" :> JNone)>>))),
          Body(JDict("docs" :> JList(<<JDict("doc" :> JDict("_source" :> JNone))>>))),
          Body(JDict("docs" :> JList(<<JDict(EmptyMap)>>))),
          SimulateBody(JStr(<<120>>)),
          SimulateBody(JDict(EmptyMap)),
          SimulateBody(JDict("content" :> JStr(<<>>))),
          SimulateBody(JDict("content" :> JStr(<<111, 108, 100>>)))}

BaseUrl == <<104, 116, 116, 112, 58, 47, 47, 111, 115>>

\* The second file of the workspace, "b.docx", and the answer to it.
OtherFile ==
    ExtractFile(<<98, 46, 100, 111, 99, 120>>, 1000,
                Archive(<<Member(DocumentName, 100, "ok", DocumentXml)>>))
OtherAnswer == SimulateBody(JDict("content" :> JStr(<<97, 98>>)))

\* A full refresh over a workspace of two files, the index holding a record
\* of a file that is gone.
ExtractProbes ==
    {[fn |-> "extract", base_url |-> u,
      candidates |-> <<f, OtherFile>>, answers |-> <<r, OtherAnswer>>,
      phase |-> "files", at |-> 1, acc |-> NoAcc, results |-> <<>>,
      calls |-> <<>>, external |-> <<>>, ooxml |-> <<>>,
      index |-> (<<111, 108, 100>> :> [filePath |-> <<111, 108, 100>>]),
      summary |-> EmptyDict] :
        u \in {<<>>, BaseUrl}, f \in ExtractFiles, r \in Answers}

InitExtract == InitProgram /\ probe \in ExtractProbes

\* One pass of the per-file loop: stat and hash succeed, the text of the file
\* is extracted, and the record is made, the file fails, or the exception
\* leaves _refresh_index with the index as it was.
ExtractProcessFile ==
    /\ probe.fn = "extract"
    /\ probe.phase = "files"
    /\ probe.at <= Len(probe.candidates)
    /\ LET file == probe.candidates[probe.at]
           response == probe.answers[probe.at]
           extracted == ExtractChain(file, probe.base_url, response)
           acc == ProcessExtracted(probe.acc, file, extracted)
       IN  probe' = [probe EXCEPT
                        !.at = @ + 1,
                        !.acc = acc,
                        !.results = Append(@, extracted),
                        !.calls = Append(@, ExtractorCalls(file, probe.base_url,
                                                           response)),
                        !.external = Append(@, _extract_with_opensearch(
                                                   file, probe.base_url, response)),
                        !.ooxml = Append(@, _extract_ooxml_text(file)),
                        !.phase = IF acc.crashed THEN "raised" ELSE "files"]
    /\ UNCHANGED <<globals, locks, lifecycle, locals, env, history, watch>>

\* The loop has ended: the swap and the summary.
ExtractSwap ==
    /\ probe.fn = "extract"
    /\ probe.phase = "files"
    /\ probe.at > Len(probe.candidates)
    /\ probe' = [probe EXCEPT
                    !.phase = "swapped",
                    !.index = probe.acc.updated,
                    !.summary = OkSummary("full", probe.index,
                                          [i \in 1..Len(probe.candidates) |->
                                              probe.candidates[i].name],
                                          probe.acc)]
    /\ UNCHANGED <<globals, locks, lifecycle, locals, env, history, watch>>

NextExtract ==
    \/ ExtractProcessFile
    \/ ExtractSwap

SpecExtract == InitExtract /\ [][NextExtract]_vars

\* The external extractor is asked about the file and fails: the request
\* raises, or the body of the answer is no UTF-8 or no JSON.
ExternalFailure(file, base_url, response) ==
    /\ base_url # <<>>
    /\ file.readable
    /\ file.st_size <= MAX_BINARY_FILE_BYTES
    /\ file.raw_len <= MAX_BINARY_FILE_BYTES
    /\ (response.raised # "none" \/ ~response.utf8 \/ ~response.json)

\* C31: a failure of the external extractor for one file degrades that file
\* only: the external extraction returns no text with an "opensearch-error"
\* meta, the chain returns the local OOXML text or none, the other file is
\* still processed, and the refresh ends with a swap that holds both files.
C31_ExternalFailureDegradesOneFile ==
    probe.fn = "extract" =>
        \A i \in 1..Len(probe.results) :
            ExternalFailure(probe.candidates[i], probe.base_url, probe.answers[i]) =>
                /\ probe.external[i].raised = "none"
                /\ probe.external[i].text = <<>>
                /\ probe.external[i].meta.extractor = "opensearch-error"
                /\ probe.results[i].raised = "none"
                /\ probe.results[i].text = probe.ooxml[i].text
                /\ probe.phase # "raised"
                /\ probe.phase = "swapped" =>
                       /\ probe.index = probe.acc.updated
                       /\ DOMAIN probe.index =
                              {probe.candidates[j].name : j \in 1..Len(probe.candidates)}

\* The members of the file's archive that _extract_ooxml_text considers.
ConsideredMembers(file) ==
    {k \in 1..Len(file.archive.members) :
        Considered(file.archive.members[k], Lower(Suffix(file.name)))}

\* The archive cannot be opened, or one of the members considered cannot be
\* read.
ArchiveError(file) ==
    \/ file.archive.open # "ok"
    \/ \E k \in ConsideredMembers(file) : file.archive.members[k].read # "ok"

\* One of the members considered is not well-formed XML.
XmlError(file) ==
    \E k \in ConsideredMembers(file) : ~file.archive.members[k].xml.well_formed

\* C32: the local OOXML extractor returns empty text whenever the archive
\* cannot be opened or read, or any of the XML members it considers fails to
\* parse.
C32_ArchiveOrXmlErrorGivesEmpty ==
    probe.fn = "extract" =>
        \A i \in 1..Len(probe.ooxml) :
            LET file == probe.candidates[i]
            IN  /\ Lower(Suffix(file.name)) \in OOXML_EXTENSIONS
                /\ ArchiveError(file) \/ XmlError(file)
                => /\ probe.ooxml[i].raised = "none"
                   /\ probe.ooxml[i].text = <<>>

\* C34: a file over 16,000,000 bytes gets empty text and the meta path-only /
\* file-too-large with no extractor called; any other file gets the first
\* non-empty text of the external extractor and then the local OOXML
\* extractor, which is called for .docx, .pptx and .xlsx only and only when
\* the external one gave no text; the meta says "opensearch" only with the
\* external text as content, "local-ooxml" only when the external extractor
\* gave no text and the local one did, and in every other outcome the content
\* is empty.
C34_ChainOrder ==
    probe.fn = "extract" =>
        \A i \in 1..Len(probe.results) :
            LET file == probe.candidates[i]
                extension == Lower(Suffix(file.name))
                result == probe.results[i]
                external == probe.external[i]
                local == probe.ooxml[i]
            IN  /\ file.st_size > MAX_BINARY_FILE_BYTES =>
                       /\ result = Returned(<<>>, [extractor |-> "path-only",
                                                   reason |-> "file-too-large"])
                       /\ probe.calls[i] = <<>>
                /\ file.st_size <= MAX_BINARY_FILE_BYTES =>
                       /\ probe.calls[i] \in {<<"opensearch">>,
                                              <<"opensearch", "local-ooxml">>}
                       /\ Len(probe.calls[i]) = 2 =>
                              /\ extension \in OOXML_EXTENSIONS
                              /\ external.raised = "none"
                              /\ external.text = <<>>
                /\ file.st_size <= MAX_BINARY_FILE_BYTES /\ result.raised = "none" =>
                       /\ result.text =
                              IF external.text # <<>> THEN external.text
                              ELSE IF Len(probe.calls[i]) = 2 THEN local.text
                              ELSE <<>>
                       /\ result.meta.extractor = "opensearch" =>
                              /\ result.text = external.text
                              /\ result.meta = external.meta
                       /\ result.meta.extractor = "local-ooxml" =>
                              /\ external.text = <<>>
                              /\ local.text # <<>>
                              /\ result.text = local.text
                              /\ extension \in OOXML_EXTENSIONS
                       /\ result.meta.extractor \notin {"opensearch", "local-ooxml"} =>
                              result.text = <<>>

\* The external extractor answers "a.docx" without a text and the local one
\* finds the text of the archive; "b.docx" gets the external text.
C34_Witness ==
    /\ probe.fn = "extract"
    /\ probe.phase = "swapped"
    /\ probe.external[1].raised = "none"
    /\ probe.results[1].raised = "none"
    /\ probe.external[1].meta.extractor = "opensearch-empty"
    /\ probe.calls[1] = <<"opensearch", "local-ooxml">>
    /\ probe.results[1].meta.extractor = "local-ooxml"
    /\ probe.index[probe.candidates[1].name].content =
           <<110, 111, 116, 101, 32, 97, 98>>
    /\ probe.results[2].meta.extractor = "opensearch"
    /\ probe.index[probe.candidates[2].name].content = <<97, 98>>

\* ------------------------------------------------------------ scan order
\* Two scans of one tree, each directory listed by iterdir() in an order the
\* file system chooses anew at every call.
\* The files the tree may hold:
\*   Q.docx
\*   q.docx
\*   b.docx
\*   docs/R.doc
\*   docs/r.doc
\*   docs/c.docx
OrderUniverse ==
    {<<<<81, 46, 100, 111, 99, 120>>>>,
     <<<<113, 46, 100, 111, 99, 120>>>>,
     <<<<98, 46, 100, 111, 99, 120>>>>,
     <<<<100, 111, 99, 115>>, <<82, 46, 100, 111, 99>>>>,
     <<<<100, 111, 99, 115>>, <<114, 46, 100, 111, 99>>>>,
     <<<<100, 111, 99, 115>>, <<99, 46, 100, 111, 99, 120>>>>}

\* The orders in which iterdir() may yield the entries of a directory.
Enumerations(names) ==
    {s \in [1..Cardinality(names) -> names] : \A n \in names : \E i \in DOMAIN s : s[i] = n}

\* One step of a stable sort by name.lower(): the name goes behind every
\* name whose key is not greater than its own.
RECURSIVE InsertByLowerName(_, _)
InsertByLowerName(sorted, name) ==
    IF sorted = <<>> THEN <<name>>
    ELSE IF StrLess(Lower(name), Lower(Head(sorted)))
    THEN <<name>> \o sorted
    ELSE <<Head(sorted)>> \o InsertByLowerName(Tail(sorted), name)

\* sorted(entries, key=name.lower()) over the entries in the order iterdir()
\* yields them: entries with equal keys keep that order.
RECURSIVE SortedEntries(_)
SortedEntries(entries) ==
    IF entries = <<>> THEN <<>>
    ELSE InsertByLowerName(SortedEntries(SubSeq(entries, 1, Len(entries) - 1)),
                           entries[Len(entries)])

NoScan == [queue |-> << <<>> >>, visited |-> {}, candidates |-> <<>>,
           diagnostics |-> <<>>]

OrderProbes ==
    {[fn |-> "order", tree |-> t, phase |-> "first", st |-> NoScan,
      first |-> <<>>, second |-> <<>>] :
        t \in SUBSET OrderUniverse}

InitOrder == InitProgram /\ probe \in OrderProbes

\* One pass of the while loop of _scan_workspace_files.
OrderScanDirectory ==
    /\ probe.fn = "order"
    /\ probe.phase \in {"first", "second"}
    /\ ScanGoesOn(probe.st.queue, probe.st.visited, probe.st.candidates)
    /\ LET directory == Head(probe.st.queue)
           popped == [probe.st EXCEPT !.queue = Tail(@)]
           entered == [popped EXCEPT !.visited = @ \cup {directory}]
       IN  IF directory \in probe.st.visited
           THEN probe' = [probe EXCEPT !.st = popped]
           ELSE \E listed \in Enumerations(EntryNames(probe.tree, directory)) :
                    probe' = [probe EXCEPT !.st =
                                 ScanEntries(SortedEntries(listed), directory,
                                             probe.tree, FALSE, entered)]
    /\ UNCHANGED <<globals, locks, lifecycle, locals, env, history, watch>>

\* The while loop ends and _scan_workspace_files returns its candidates; the
\* second scan starts after the first.
OrderScanReturns ==
    /\ probe.fn = "order"
    /\ probe.phase \in {"first", "second"}
    /\ ~ScanGoesOn(probe.st.queue, probe.st.visited, probe.st.candidates)
    /\ LET candidates == [i \in DOMAIN probe.st.candidates |->
                             AsPosix(probe.st.candidates[i])]
       IN  probe' = IF probe.phase = "first"
                    THEN [probe EXCEPT !.phase = "second", !.st = NoScan,
                                       !.first = candidates]
                    ELSE [probe EXCEPT !.phase = "compared", !.second = candidates]
    /\ UNCHANGED <<globals, locks, lifecycle, locals, env, history, watch>>

NextOrder ==
    \/ OrderScanDirectory
    \/ OrderScanReturns

SpecOrder == InitOrder /\ [][NextOrder]_vars

\* C33: two scans of an unchanged tree return the same candidates in the same
\* order, whatever the order in which the file system lists a directory.
C33_ScanIsDeterministic ==
    probe.fn = "order" /\ probe.phase = "compared" => probe.first = probe.second

\* ------------------------------------------------------------ lock order
\* Two handlers that serve searches and reindex calls side by side, over a
\* workspace whose root goes away and comes back and in which the extraction
\* of "ab.docx" may die of an exception that is no OSError: refreshes leave
\* by the debounce, by the missing root, by the exception and by the swap.
NextLocks ==
    \/ Tick /\ UNCHANGED observers
    \/ RemoveRoot /\ UNCHANGED observers
    \/ RestoreRoot /\ UNCHANGED observers
    \/ \E t \in Handlers : StartSearch(t, <<32, 97, 98>>, <<>>) /\ UNCHANGED observers
    \/ \E t \in Handlers : StartReindex(t, "") /\ UNCHANGED observers
    \/ \E t \in Handlers : Health(t) /\ UNCHANGED observers
    \/ \E t \in Handlers : AcquireRefreshLock(t) /\ UNCHANGED observers
    \/ \E t \in Handlers : Snapshot(t) /\ UNCHANGED observers
    \/ \E t \in Handlers : SkipReturn(t) /\ UNCHANGED observers
    \/ \E t \in Handlers : RootFound(t) /\ UNCHANGED observers
    \/ \E t \in Handlers : RootMissing(t) /\ UNCHANGED observers
    \/ \E t \in Handlers : Scan(t) /\ UNCHANGED observers
    \/ \E t \in Handlers, faults \in {NoFaults, CrashFaults} :
           Build(t, faults) /\ UNCHANGED observers
    \/ \E t \in Handlers : FinalizeClear(t) /\ UNCHANGED observers
    \/ \E t \in Handlers : FinalizeUpdate(t) /\ UNCHANGED observers
    \/ \E t \in Handlers : FinalizeMeta(t) /\ UNCHANGED observers
    \/ \E t \in Handlers : ReturnSummary(t) /\ UNCHANGED observers
    \/ \E t \in Handlers : SearchIndex(t) /\ UNCHANGED observers

SpecLocks == Init /\ [][NextLocks]_vars

\* A step of thread t between taking the refresh lock and releasing it: the
\* blocks under the index lock, the scan, the per-file loop, the swap and the
\* return.
RefreshRuns(t) ==
    /\ \/ Snapshot(t)
       \/ SkipReturn(t)
       \/ RootFound(t)
       \/ RootMissing(t)
       \/ Scan(t)
       \/ \E faults \in {NoFaults, CrashFaults} : Build(t, faults)
       \/ FinalizeClear(t)
       \/ FinalizeUpdate(t)
       \/ FinalizeMeta(t)
       \/ ReturnSummary(t)
    /\ UNCHANGED observers

\* The I/O of a refresh ends and a thread that can go on does so; and a
\* thread that waits for the refresh lock and finds it free again and again
\* gets it in the end.
SpecLocksFair ==
    /\ Init
    /\ [][NextLocks]_vars
    /\ \A t \in Handlers : WF_vars(RefreshRuns(t))
    /\ \A t \in Handlers : SF_vars(AcquireRefreshLock(t) /\ UNCHANGED observers)

\* Thread t is inside no with-block of either lock.
OutsideLocks(t) == pc[t] \in {"idle", "done", "refresh_lock", "search_index"}

SummaryPositions == {"finalize", "fin_update", "fin_meta", "return"}

\* The counts of an "ok" summary add up.
CountsAddUp(summary) ==
    /\ summary.indexedFiles = summary.reusedFiles + summary.updatedFiles
    /\ summary.scannedFiles = summary.indexedFiles + summary.failedFiles

\* C36: in every "ok" summary indexedFiles = reusedFiles + updatedFiles and
\* scannedFiles = indexedFiles + failedFiles, in the refresh that built it, in
\* what it returns and in what the store keeps; and indexedFiles is the number
\* of records of the index when the swap has ended.
C36_SummaryAccounting ==
    /\ [](\A t \in Threads :
            /\ pc[t] \in SummaryPositions =>
                   /\ frame[t].summary.status = "ok"
                   /\ CountsAddUp(frame[t].summary)
                   /\ frame[t].summary.indexedFiles = Size(frame[t].updated)
                   /\ frame[t].summary.scannedFiles = Len(frame[t].scanned)
            /\ pc[t] = "return" =>
                   /\ last_refresh_summary = frame[t].summary
                   /\ frame[t].summary.indexedFiles = Size(index_by_path)
            /\ outcome[t].raised = "none" /\ outcome[t].summary # EmptyDict
               /\ outcome[t].summary.status = "ok" =>
                   CountsAddUp(outcome[t].summary))
    /\ [](last_refresh_summary # EmptyDict /\ last_refresh_summary.status = "ok" =>
            CountsAddUp(last_refresh_summary))
    /\ [][ \A t \in Threads :
             pc[t] = "fin_meta" /\ pc'[t] = "return" =>
                 /\ last_refresh_summary' = frame[t].summary
                 /\ last_refresh_summary'.indexedFiles = Size(index_by_path') ]_vars

\* A refresh of two scanned files has ended its swap with one file failed and
\* one reused.
C36_Witness ==
    /\ pc["h1"] = "return"
    /\ frame["h1"].summary.scannedFiles = 2
    /\ frame["h1"].summary.failedFiles = 1
    /\ frame["h1"].summary.reusedFiles = 1
    /\ frame["h1"].summary.updatedFiles = 0
    /\ frame["h1"].summary.indexedFiles = 1
    /\ Size(index_by_path) = 1

\* The keys of the previous index that the new index has not, and the keys of
\* the new index that the previous one had not.
RemovedKeys(t) == DOMAIN frame[t].previous \ DOMAIN frame[t].updated
AddedKeys(t) == DOMAIN frame[t].updated \ DOMAIN frame[t].previous

\* C37 as stated: removedFiles is the number of paths that were keys of the
\* previous index and are not keys of the new one.
C37_RemovedIsSetDifference ==
    \A t \in Threads :
        pc[t] \in SummaryPositions =>
            frame[t].summary.removedFiles = Cardinality(RemovedKeys(t))

\* C37, amended: removedFiles is the size of the previous index less the size
\* of the new one, and 0 when the new one is larger: the number of previous
\* keys that the new index has not, less the number of new keys that the
\* previous index had not; so it is the number of keys removed whenever the
\* refresh adds no key.
C37_RemovedIsSizeDifference ==
    \A t \in Threads :
        pc[t] \in SummaryPositions =>
            /\ frame[t].summary.removedFiles =
                   Max2(0, Size(frame[t].previous) - Size(frame[t].updated))
            /\ frame[t].summary.removedFiles =
                   Max2(0, Cardinality(RemovedKeys(t)) - Cardinality(AddedKeys(t)))
            /\ AddedKeys(t) = {} =>
                   frame[t].summary.removedFiles = Cardinality(RemovedKeys(t))

\* A refresh drops one path and adds another, and reports no file removed.
C37_Witness ==
    /\ pc["h1"] = "return"
    /\ Cardinality(RemovedKeys("h1")) = 1
    /\ Cardinality(AddedKeys("h1")) = 1
    /\ frame["h1"].summary.removedFiles = 0
    /\ last_refresh_summary.removedFiles = 0

\* ------------------------------------------------------------ incremental and full
\* Refreshes of either mode over a workspace whose files are written, touched
\* and deleted between them, with an external extractor configured whose
\* service is up at some refreshes and down at others.  No stat, hash or
\* extraction of a file fails.
MaxRefreshes == 3

\* The archive of a file whose bytes are d: its document says "note" for
\* bytes 1, and its header "ab" for any other bytes.
ArchiveOf(d) ==
    IF d = 1 THEN Archive(<<Member(DocumentName, 100, "ok", DocumentXml)>>)
    ELSE Archive(<<Member(HeaderName, 100, "ok", HeaderXml)>>)

EquivFile(name, mtime, d) ==
    [name |-> name, mtime |-> mtime, st_size |-> SizeOf(d), readable |-> TRUE,
     raw_len |-> SizeOf(d), data |-> d, archive |-> ArchiveOf(d)]

\* The answer of the external extractor to a file: the text of its bytes when
\* the service is up, no connection when it is down.
AnswerTo(file, up) ==
    IF up THEN SimulateBody(JDict("content" :> JStr(TextOf(file.data))))
    ELSE Answer("URLError", TRUE, TRUE, JNone)

\* An incremental refresh takes the text of the file from the record the
\* index has for it: same mtime and size, or same hash.
Reusable(file, previous) ==
    /\ file.name \in DOMAIN previous
    /\ \/ /\ previous[file.name].mtimeNs = file.mtime
          /\ previous[file.name].sizeBytes = file.st_size
       \/ previous[file.name].contentHash = _compute_file_hash(file)

\* One pass of the per-file loop of _refresh_index in which stat and hash
\* succeed: reuse for the same mtime and size, reuse for the same hash with
\* mtime and size refreshed, or extraction.
RefreshFile(acc, file, previous, mode, base_url, response) ==
    LET has_existing == file.name \in DOMAIN previous
        existing == previous[file.name]
        content_hash == _compute_file_hash(file)
    IN  IF /\ mode = "incremental"
           /\ has_existing
           /\ existing.mtimeNs = file.mtime
           /\ existing.sizeBytes = file.st_size
        THEN [acc EXCEPT !.updated = MapPut(@, file.name, existing),
                         !.reused_files = @ + 1]
        ELSE IF /\ mode = "incremental"
                /\ has_existing
                /\ existing.contentHash = content_hash
        THEN [acc EXCEPT !.updated = MapPut(@, file.name,
                                            [existing EXCEPT
                                                !.mtimeNs = file.mtime,
                                                !.sizeBytes = file.st_size]),
                         !.reused_files = @ + 1]
        ELSE ProcessExtracted(acc, file, ExtractChain(file, base_url, response))

\* The per-file loop over the scanned files, first to last.
RECURSIVE RefreshFiles(_, _, _, _, _, _)
RefreshFiles(acc, scanned, previous, mode, base_url, up) ==
    IF scanned = <<>> THEN acc
    ELSE RefreshFiles(RefreshFile(acc, Head(scanned), previous, mode, base_url,
                                  AnswerTo(Head(scanned), up)),
                      Tail(scanned), previous, mode, base_url, up)

\* The files of the workspace in the order of the scan.
EquivScanned(fs) ==
    LET names == SortedByName({p \in Paths : fs[p].exists})
    IN  [i \in DOMAIN names |-> EquivFile(names[i], fs[names[i]].mtime,
                                          fs[names[i]].data)]

EquivProbes ==
    {[fn |-> "equiv", fs |-> [p \in Paths |-> File(0, IF p = PathA THEN 1 ELSE 2)],
      up |-> u, index |-> EmptyMap, made_up |-> EmptyMap, refreshes |-> 0,
      mode |-> "none", answered |-> FALSE, steady |-> TRUE, incremental |-> NoAcc, full |-> NoAcc] :
        u \in BOOLEAN}

InitEquiv == InitProgram /\ probe \in EquivProbes

\* A file is written with other bytes, and its mtime moves on.
EquivWrite(p, d) ==
    /\ probe.fn = "equiv"
    /\ probe.fs[p].mtime < MaxWrites
    /\ probe.fs[p].data # d
    /\ probe' = [probe EXCEPT !.fs[p] = File(probe.fs[p].mtime + 1, d)]
    /\ UNCHANGED <<globals, locks, lifecycle, locals, env, history, watch>>

\* A file is written with the bytes it has: its mtime alone moves on.
EquivTouch(p) ==
    /\ probe.fn = "equiv"
    /\ probe.fs[p].exists
    /\ probe.fs[p].mtime < MaxWrites
    /\ probe' = [probe EXCEPT !.fs[p] = File(probe.fs[p].mtime + 1, probe.fs[p].data)]
    /\ UNCHANGED <<globals, locks, lifecycle, locals, env, history, watch>>

\* A file is deleted.
EquivDelete(p) ==
    /\ probe.fn = "equiv"
    /\ probe.fs[p].exists
    /\ probe' = [probe EXCEPT !.fs[p] = [NoFile EXCEPT !.mtime = probe.fs[p].mtime]]
    /\ UNCHANGED <<globals, locks, lifecycle, locals, env, history, watch>>

\* The service of the external extractor goes down or comes back.
EquivOutage ==
    /\ probe.fn = "equiv"
    /\ probe' = [probe EXCEPT !.up = ~probe.up]
    /\ UNCHANGED <<globals, locks, lifecycle, locals, env, history, watch>>

\* A refresh of the given mode runs and installs its index; beside it, what
\* a refresh of each mode builds from the same index over the same files.
\* made_up records, for every record, whether the service was up when its
\* text was extracted; answered, whether it is up at this refresh; steady,
\* whether that was as it is at this refresh for
\* every record of the index the refresh started from.
EquivRefresh(mode) ==
    /\ probe.fn = "equiv"
    /\ probe.refreshes < MaxRefreshes
    /\ LET scanned == EquivScanned(probe.fs)
           incremental == RefreshFiles(NoAcc, scanned, probe.index, "incremental",
                                       BaseUrl, probe.up)
           full == RefreshFiles(NoAcc, scanned, probe.index, "full", BaseUrl,
                                probe.up)
           built == IF mode = "full" THEN full ELSE incremental
           kept == {scanned[i].name : i \in {j \in DOMAIN scanned :
                       /\ mode = "incremental"
                       /\ Reusable(scanned[j], probe.index)}}
       IN  probe' = [probe EXCEPT
                        !.refreshes = @ + 1,
                        !.mode = mode,
                        !.answered = probe.up,
                        !.steady = \A p \in DOMAIN probe.index :
                                       probe.made_up[p] = probe.up,
                        !.incremental = incremental,
                        !.full = full,
                        !.index = built.updated,
                        !.made_up = [p \in DOMAIN built.updated |->
                                        IF p \in kept THEN probe.made_up[p]
                                        ELSE probe.up]]
    /\ UNCHANGED <<globals, locks, lifecycle, locals, env, history, watch>>

NextEquiv ==
    \/ \E p \in Paths, d \in DataValues : EquivWrite(p, d)
    \/ \E p \in Paths : EquivTouch(p)
    \/ \E p \in Paths : EquivDelete(p)
    \/ EquivOutage
    \/ \E mode \in {"full", "incremental"} : EquivRefresh(mode)

SpecEquiv == InitEquiv /\ [][NextEquiv]_vars

\* Where the equivalence does hold: every record of the index the refresh
\* starts from was extracted with the service as it is at this refresh.
SteadyEquivalence ==
    (probe.fn = "equiv" /\ probe.refreshes > 0 /\ probe.steady)
        => /\ probe.incremental.updated = probe.full.updated
           /\ ~probe.incremental.crashed
           /\ probe.incremental.failed_files = 0

\* C38: from any index earlier refreshes produced, with the extractor
\* configuration fixed and no failure of any file, an incremental refresh
\* builds the index a full refresh of the same file tree builds: the same
\* keys and per key the same content, contentHash, sourceMeta, mtimeNs and
\* sizeBytes.  Compared here are refreshes at which the external extractor
\* answers every file.
C38_IncrementalIsFull ==
    (probe.fn = "equiv" /\ probe.refreshes > 0 /\ probe.answered)
        => /\ DOMAIN probe.incremental.updated = DOMAIN probe.full.updated
           /\ \A p \in DOMAIN probe.incremental.updated :
                  /\ probe.incremental.updated[p].content
                         = probe.full.updated[p].content
                  /\ probe.incremental.updated[p].contentHash
                         = probe.full.updated[p].contentHash
                  /\ probe.incremental.updated[p].sourceMeta
                         = probe.full.updated[p].sourceMeta
                  /\ probe.incremental.updated[p].mtimeNs
                         = probe.full.updated[p].mtimeNs
                  /\ probe.incremental.updated[p].sizeBytes
                         = probe.full.updated[p].sizeBytes

====
